---- MODULE Spec2Model ----
(***************************************************************************)
(* Dataset-versioning pipeline of VOX Personalis                           *)
(* (src/scripts/dataset_versioning): content hashing, rule-based cleaning, *)
(* duration binning, stratified splitting, temporal check, validation and  *)
(* artifact generation, as run by run_versioning.                          *)
(*                                                                         *)
(* A DataFrame is a sequence of rows (records) in positional order; the    *)
(* field "index" of a row is its pandas index label.  A missing value      *)
(* (None / NaN) is NoneVal.  Ratios are exact rationals in thousandths.    *)
(***************************************************************************)
EXTENDS Integers, Sequences, FiniteSets, TLC

VARIABLES
    fs,                 \* audio files on disk: path -> bytes, or Unreadable
    inventory_csv,      \* inventory_files.csv: [state, rows]
    args,               \* parsed command line (argparse.Namespace)
    clock,              \* wall clock, names the timestamped output directory
    pc,                 \* position of run_versioning
    df,                 \* inventory DataFrame (+ hash columns after phase 1)
    included_df,        \* included records, columns growing phase by phase
    excluded_df,        \* excluded records with excluded_reason
    temporal_report,    \* phase 5 result
    validation_result,  \* phase 6 result
    out_files,          \* artifacts written into out_dir
    exit_code,          \* return value of run_versioning
    previous            \* artifacts and input of the preceding run

vars == <<fs, inventory_csv, args, clock, pc, df, included_df, excluded_df,
          temporal_report, validation_result, out_files, exit_code, previous>>

\* None / NaN
NoneVal == -1

-----------------------------------------------------------------------------
(* Generic DataFrame helpers *)

Range(s) == {s[i] : i \in DOMAIN s}

\* df[mask]: the rows whose index label is selected, in positional order
FilterRows(rows, Keep(_)) ==
    LET F[lo \in 1..(Len(rows) + 1), hi \in 0..Len(rows)] ==
            IF lo > hi THEN <<>>
            ELSE IF lo = hi THEN (IF Keep(rows[lo]) THEN <<rows[lo]>> ELSE <<>>)
            ELSE F[lo, (lo + hi) \div 2] \o F[(lo + hi) \div 2 + 1, hi]
    IN  F[1, Len(rows)]

\* stable insertion sort; Lt is a strict order on the keys
SortRows(rows, Lt(_, _)) ==
    LET Insert(t, x) ==
            LET c == Cardinality({j \in DOMAIN t : ~Lt(x, t[j])})
            IN  SubSeq(t, 1, c) \o <<x>> \o SubSeq(t, c + 1, Len(t))
        S[k \in 0..Len(rows)] ==
            IF k = 0 THEN <<>> ELSE Insert(S[k - 1], rows[k])
    IN  S[Len(rows)]

MapRows(rows, Op(_)) == [k \in DOMAIN rows |-> Op(rows[k])]

\* order of first appearance of the values of a column (Series.unique)
Unique(rows, Col(_)) ==
    LET U[k \in 0..Len(rows)] ==
            IF k = 0 THEN <<>>
            ELSE IF Col(rows[k]) \in Range(U[k - 1]) THEN U[k - 1]
                 ELSE Append(U[k - 1], Col(rows[k]))
    IN  U[Len(rows)]

-----------------------------------------------------------------------------
(* hashing.py.  SHA-256 is modelled as a digest that is injective on the   *)
(* messages of the model and does not preserve their order: multiplication *)
(* by a unit modulo a prime.  A message is a natural: audio bytes and      *)
(* transcript text are short messages (below 17), the concatenation of two *)
(* hex digests is a long one (17..306).                                    *)

Unreadable == 0

SHA256(message) ==
    IF message < 17 THEN (message * 7) % 17
    ELSE 17 + ((message * 97) % 307)

AudioMessage(bytes) == bytes

\* transcript.encode("utf-8")
TextMessage(text) ==
    CASE text = "" -> 10
      [] text = " " -> 11
      [] text = "x" -> 12
      [] text = "y" -> 13
HexConcat(a, t) == 17 + a * 17 + t

compute_audio_sha256(audio_path) ==
    IF fs[audio_path] = Unreadable THEN NoneVal
    ELSE SHA256(AudioMessage(fs[audio_path]))

compute_transcript_sha256(transcript) == SHA256(TextMessage(transcript))

\* mutant: the transcript hash is left out of the pair hash
compute_pair_sha256_AudioOnly(audio_sha256, transcript_sha256) ==
    SHA256(HexConcat(audio_sha256, 0))

compute_pair_sha256(audio_sha256, transcript_sha256) ==
    SHA256(HexConcat(audio_sha256, transcript_sha256))

\* mutant: the pair hash is computed whether or not the audio hash is there
compute_all_hashes_PairAlways(audio_path, transcript) ==
    <<compute_audio_sha256(audio_path), compute_transcript_sha256(transcript),
      compute_pair_sha256(compute_audio_sha256(audio_path),
                          compute_transcript_sha256(transcript))>>

compute_all_hashes(audio_path, transcript) ==
    LET audio_sha256 == compute_audio_sha256(audio_path)
        transcript_sha256 == compute_transcript_sha256(transcript)
        pair_sha256 == IF audio_sha256 # NoneVal
                       THEN compute_pair_sha256(audio_sha256, transcript_sha256)
                       ELSE NoneVal
    IN  <<audio_sha256, transcript_sha256, pair_sha256>>

-----------------------------------------------------------------------------
(* cleaning.py *)

REASON_AUDIO_UNREADABLE == "audio_unreadable"
REASON_DURATION_INVALID == "duration_invalid"
REASON_TRANSCRIPT_BLANK == "transcript_blank"
REASON_DUPLICATE_PAIR == "duplicate_audio_transcript"

\* a transcript cell that pandas reads as a missing value (float NaN)
NaN == "NaN"

\* row.get("transcript_raw", "") or "": NaN is truthy and is passed on
TranscriptArgument(row) == row.transcript_raw

\* compute_transcript_sha256(NaN): a float has no encode, AttributeError
HashingRaises(frame) ==
    \E k \in DOMAIN frame : TranscriptArgument(frame[k]) = NaN

WithHashes(row) ==
    LET h == compute_all_hashes(row.audio_path_resolved, TranscriptArgument(row))
    IN  [index |-> row.index,
         file_name |-> row.file_name,
         manifest_row_index |-> row.manifest_row_index,
         audio_path_resolved |-> row.audio_path_resolved,
         duration_sec |-> row.duration_sec,
         audio_read_ok |-> row.audio_read_ok,
         transcript_is_blank |-> row.transcript_is_blank,
         transcript_raw |-> row.transcript_raw,
         timestamp_ms |-> row.timestamp_ms,
         audio_sha256 |-> h[1],
         transcript_sha256 |-> h[2],
         pair_sha256 |-> h[3]]

compute_hashes_for_dataframe(frame) == MapRows(frame, WithHashes)

\* boolean masks over the index labels of the frame
Labels(frame) == {frame[k].index : k \in DOMAIN frame}
RowAt(frame, idx) == CHOOSE r \in Range(frame) : r.index = idx

rule1_mask(frame) ==
    [idx \in Labels(frame) |-> RowAt(frame, idx).audio_read_ok = FALSE]

\* mutant: only a missing duration is invalid, not one <= 0
rule2_mask_MissingOnly(frame) ==
    [idx \in Labels(frame) |-> RowAt(frame, idx).duration_sec = NoneVal]

rule2_mask(frame) ==
    [idx \in Labels(frame) |->
        \/ RowAt(frame, idx).duration_sec = NoneVal
        \/ (RowAt(frame, idx).duration_sec # NoneVal /\ RowAt(frame, idx).duration_sec <= 0)]

rule3_mask(frame) ==
    [idx \in Labels(frame) |-> RowAt(frame, idx).transcript_is_blank = TRUE]

\* remaining_mask & rule_mask
MaskAnd(m, r) == [idx \in DOMAIN m |-> m[idx] /\ r[idx]]

\* mutant: the remaining mask is not narrowed by the rule
MaskAndNot_NotNarrowed(m, r) == m

\* remaining_mask & ~rule_mask
MaskAndNot(m, r) == [idx \in DOMAIN m |-> m[idx] /\ ~r[idx]]

ExcludedRecord(row, reason) ==
    [file_name |-> row.file_name,
     manifest_row_index |-> row.manifest_row_index,
     excluded_reason |-> reason,
     audio_sha256 |-> row.audio_sha256,
     transcript_sha256 |-> row.transcript_sha256]

\* for idx in df[mask].index: excluded_records.append({...})
ExcludeBy(frame, mask, reason) ==
    LET Selected(row) == mask[row.index]
        Rec(row) == ExcludedRecord(row, reason)
    IN  MapRows(FilterRows(frame, Selected), Rec)

\* mutant: the remaining rows are left in frame order
SortByManifestRowIndex_Unsorted(frame) == frame

\* remaining_df.sort_values("manifest_row_index")
SortByManifestRowIndex(frame) ==
    LET Lt(a, b) == a.manifest_row_index < b.manifest_row_index
    IN  SortRows(frame, Lt)

\* mutant: a missing pair_sha256 is the duplicate of no other
DuplicateIndices_MissingApart(sorted_df) ==
    LET Dup[k \in 0..Len(sorted_df)] ==
            IF k = 0 THEN <<>>
            ELSE IF \E j \in 1..(k - 1) :
                        /\ sorted_df[k].pair_sha256 # NoneVal
                        /\ sorted_df[j].pair_sha256 = sorted_df[k].pair_sha256
                 THEN Append(Dup[k - 1], sorted_df[k].index)
                 ELSE Dup[k - 1]
    IN  Dup[Len(sorted_df)]

\* DataFrame.duplicated(subset=["pair_sha256"], keep="first"): the index
\* labels of all but the first row of each pair_sha256 value, in frame
\* order; missing values compare equal to one another
DuplicateIndices(sorted_df) ==
    LET Dup[k \in 0..Len(sorted_df)] ==
            IF k = 0 THEN <<>>
            ELSE IF \E j \in 1..(k - 1) :
                        sorted_df[j].pair_sha256 = sorted_df[k].pair_sha256
                 THEN Append(Dup[k - 1], sorted_df[k].index)
                 ELSE Dup[k - 1]
    IN  Dup[Len(sorted_df)]

apply_cleaning_rules(frame) ==
    LET mask0 == [idx \in Labels(frame) |-> TRUE]
        rule1 == rule1_mask(frame)
        ex1 == ExcludeBy(frame, MaskAnd(mask0, rule1), REASON_AUDIO_UNREADABLE)
        mask1 == MaskAndNot(mask0, rule1)
        rule2 == rule2_mask(frame)
        ex2 == ExcludeBy(frame, MaskAnd(mask1, rule2), REASON_DURATION_INVALID)
        mask2 == MaskAndNot(mask1, rule2)
        rule3 == rule3_mask(frame)
        ex3 == ExcludeBy(frame, MaskAnd(mask2, rule3), REASON_TRANSCRIPT_BLANK)
        mask3 == MaskAndNot(mask2, rule3)
        Remaining(row) == mask3[row.index]
        remaining_df == SortByManifestRowIndex(FilterRows(frame, Remaining))
        duplicate_indices == DuplicateIndices(remaining_df)
        Dup(idx) == ExcludedRecord(RowAt(frame, idx), REASON_DUPLICATE_PAIR)
        ex4 == MapRows(duplicate_indices, Dup)
        mask4 == [idx \in Labels(frame) |->
                    mask3[idx] /\ idx \notin Range(duplicate_indices)]
        Included(row) == mask4[row.index]
    IN  [included_df |-> FilterRows(frame, Included),
         excluded_df |-> ex1 \o ex2 \o ex3 \o ex4]

\* cleaning.py: detect_duplicate_audio_different_transcript.  groupby drops
\* the rows whose audio_sha256 is missing, and isin never matches them.
TranscriptsOfAudio(frame, audio) ==
    {r.transcript_sha256 : r \in {q \in Range(frame) : q.audio_sha256 = audio}}

audio_with_multiple_transcripts(frame) ==
    {a \in {r.audio_sha256 : r \in Range(frame)} :
        a # NoneVal /\ Cardinality(TranscriptsOfAudio(frame, a)) > 1}

\* mutant: the groups are formed over every input record, excluded ones too
detect_duplicate_audio_different_transcript_OverInput(frame) ==
    LET Flag(row) ==
            [duplicate_audio_flag |->
                row.audio_sha256 \in audio_with_multiple_transcripts(df)] @@ row
    IN  MapRows(frame, Flag)

detect_duplicate_audio_different_transcript(frame) ==
    LET Flag(row) ==
            [duplicate_audio_flag |->
                row.audio_sha256 \in audio_with_multiple_transcripts(frame)] @@ row
    IN  MapRows(frame, Flag)

-----------------------------------------------------------------------------
(* splitting.py *)

\* float("inf")
Inf == 1000000

\* pd.cut raises ValueError unless the bins increase strictly
BinsIncrease(bin_edges) ==
    \A i \in 1..(Len(bin_edges) - 1) : bin_edges[i] < bin_edges[i + 1]

\* the label of bin i: "({left}, {int(right)}]", "({left}, inf]" for the last
BinLabel(bin_edges, i) == <<bin_edges[i], bin_edges[i + 1]>>

NoBin == <<NoneVal, NoneVal>>

\* mutant: the intervals are closed on the left, [left, right)
CutRight_LeftClosed(d, bin_edges) ==
    IF d # NoneVal /\ \E i \in 1..(Len(bin_edges) - 1) :
                          bin_edges[i] <= d /\ d < bin_edges[i + 1]
    THEN BinLabel(bin_edges,
                  CHOOSE i \in 1..(Len(bin_edges) - 1) :
                      bin_edges[i] <= d /\ d < bin_edges[i + 1])
    ELSE NoBin

\* pd.cut(duration_sec, bins, right=True): the bin with left < d <= right,
\* NaN when there is none
CutRight(d, bin_edges) ==
    IF d # NoneVal /\ \E i \in 1..(Len(bin_edges) - 1) :
                          bin_edges[i] < d /\ d <= bin_edges[i + 1]
    THEN BinLabel(bin_edges,
                  CHOOSE i \in 1..(Len(bin_edges) - 1) :
                      bin_edges[i] < d /\ d <= bin_edges[i + 1])
    ELSE NoBin

assign_duration_bins(frame, bin_edges) ==
    LET Bin(row) ==
            [duration_bin |-> CutRight(row.duration_sec, bin_edges)] @@ row
    IN  MapRows(frame, Bin)

\* the categories of the duration_bin column, in bin order
BinCategories(bin_edges) ==
    [i \in 1..(Len(bin_edges) - 1) |-> BinLabel(bin_edges, i)]

\* int(np.floor(n * ratio)), the ratio in thousandths
FloorOfProduct(n, ratio) == (n * ratio) \div 1000

\* not (0.999 <= total <= 1.001)
RatiosRejected(train_ratio, val_ratio, test_ratio) ==
    ~(999 <= train_ratio + val_ratio + test_ratio
        /\ train_ratio + val_ratio + test_ratio <= 1001)

\* mutant: the bin is left in frame order
SortByPairSha256_FrameOrder(frame) == frame

\* bin_df.sort_values("pair_sha256"): ascending, missing values last
SortByPairSha256(frame) ==
    LET Lt(a, b) == /\ a.pair_sha256 # NoneVal
                    /\ (b.pair_sha256 = NoneVal \/ a.pair_sha256 < b.pair_sha256)
    IN  SortRows(frame, Lt)

\* the label given to position i (from 0) of a sorted bin
SplitAtPosition(i, n_train, n_val) ==
    IF i < n_train THEN "train"
    ELSE IF i < n_train + n_val THEN "val"
    ELSE "test"

NoSplit == "None"

\* one pass of the loop over the bins: the split column after bin_label
SplitOneBin(frame, split_col, bin_label, train_ratio, val_ratio, seed) ==
    IF bin_label = NoBin THEN split_col
    ELSE
        LET InBin(row) == row.duration_bin = bin_label
            bin_df == SortByPairSha256(FilterRows(frame, InBin))
            n == Len(bin_df)
            n_train == FloorOfProduct(n, train_ratio)
            n_val == FloorOfProduct(n, val_ratio)
        IN  [idx \in DOMAIN split_col |->
                IF \E i \in 1..n : bin_df[i].index = idx
                THEN SplitAtPosition((CHOOSE i \in 1..n : bin_df[i].index = idx) - 1,
                                     n_train, n_val)
                ELSE split_col[idx]]

\* stratified_split once the ratios are accepted
stratified_split(frame, train_ratio, val_ratio, test_ratio, seed) ==
    LET IsBin(row) == row.duration_bin
        bins == Unique(frame, IsBin)
        Col[k \in 0..Len(bins)] ==
            IF k = 0 THEN [idx \in Labels(frame) |-> NoSplit]
            ELSE SplitOneBin(frame, Col[k - 1], bins[k], train_ratio, val_ratio, seed)
        Split(row) == [split |-> Col[Len(bins)][row.index]] @@ row
    IN  MapRows(frame, Split)

\* get_split_statistics / value_counts / groupby("split").sum()
RowsOfSplit(frame, split) ==
    LET In(row) == row.split = split
    IN  FilterRows(frame, In)

SplitCount(frame, split) == Len(RowsOfSplit(frame, split))

SplitDuration(frame, split) ==
    LET rows == RowsOfSplit(frame, split)
        Sum[lo \in 1..(Len(rows) + 1), hi \in 0..Len(rows)] ==
            IF lo > hi THEN 0
            ELSE IF lo = hi THEN rows[lo].duration_sec
            ELSE Sum[lo, (lo + hi) \div 2] + Sum[(lo + hi) \div 2 + 1, hi]
    IN  Sum[1, Len(rows)]

-----------------------------------------------------------------------------
(* temporal.py *)

DEFAULT_SESSION_GAP_MS == 60000

\* MIN_TIMESTAMP_COVERAGE = 0.5, in percent
MIN_TIMESTAMP_COVERAGE == 50

NonNullTimestamps(frame) ==
    Cardinality({k \in DOMAIN frame : frame[k].timestamp_ms # NoneVal})

\* mutant: a coverage of exactly MIN_TIMESTAMP_COVERAGE is too low as well
CoverageTooLow_AtThreshold(frame) ==
    Len(frame) = 0 \/ NonNullTimestamps(frame) * 100 <= MIN_TIMESTAMP_COVERAGE * Len(frame)

\* coverage < MIN_TIMESTAMP_COVERAGE, coverage = non_null_count / len(df)
CoverageTooLow(frame) ==
    Len(frame) = 0 \/ NonNullTimestamps(frame) * 100 < MIN_TIMESTAMP_COVERAGE * Len(frame)

\* result.sort_values("timestamp_ms"): ascending, missing values last
SortByTimestamp(frame) ==
    LET Lt(a, b) == /\ a.timestamp_ms # NoneVal
                    /\ (b.timestamp_ms = NoneVal \/ a.timestamp_ms < b.timestamp_ms)
    IN  SortRows(frame, Lt)

\* mutant: only a gap between two timestamps starts a session after the
\* first; a missing timestamp joins the session before it
NewSession_MissingJoins(sorted_df, k, gap_ms) ==
    \/ k = 1
    \/ /\ sorted_df[k].timestamp_ms # NoneVal
       /\ sorted_df[k - 1].timestamp_ms # NoneVal
       /\ sorted_df[k].timestamp_ms - sorted_df[k - 1].timestamp_ms > gap_ms

\* mutant: a gap of exactly gap_ms starts a new session as well
NewSession_AtThreshold(sorted_df, k, gap_ms) ==
    \/ k = 1
    \/ sorted_df[k].timestamp_ms = NoneVal
    \/ sorted_df[k - 1].timestamp_ms = NoneVal
    \/ sorted_df[k].timestamp_ms - sorted_df[k - 1].timestamp_ms >= gap_ms

\* new_session = timestamp_diff.isna() | (timestamp_diff > gap_ms)
NewSession(sorted_df, k, gap_ms) ==
    \/ k = 1
    \/ sorted_df[k].timestamp_ms = NoneVal
    \/ sorted_df[k - 1].timestamp_ms = NoneVal
    \/ sorted_df[k].timestamp_ms - sorted_df[k - 1].timestamp_ms > gap_ms

\* session_cluster_id = new_session.cumsum(), as index label -> cluster id
detect_temporal_clusters(frame, gap_ms) ==
    LET sorted_df == SortByTimestamp(frame)
        Id[k \in 0..Len(sorted_df)] ==
            IF k = 0 THEN 0
            ELSE IF NewSession(sorted_df, k, gap_ms) THEN Id[k - 1] + 1 ELSE Id[k - 1]
    IN  [idx \in Labels(frame) |->
            Id[CHOOSE k \in DOMAIN sorted_df : sorted_df[k].index = idx]]

\* result.sort_index(): the rows by ascending index label
SortByIndex(frame) ==
    LET Lt(a, b) == a.index < b.index
    IN  SortRows(frame, Lt)

\* the frame that detect_temporal_clusters returns: the rows sorted by
\* timestamp get their session_cluster_id and are sorted by index again
clustered_frame(frame, gap_ms) ==
    LET sorted_df == SortByTimestamp(frame)
        cluster_of == detect_temporal_clusters(frame, gap_ms)
    IN  SortByIndex([k \in DOMAIN sorted_df |->
                        [index |-> sorted_df[k].index,
                         manifest_row_index |-> sorted_df[k].manifest_row_index,
                         timestamp_ms |-> sorted_df[k].timestamp_ms,
                         split |-> sorted_df[k].split,
                         session_cluster_id |-> cluster_of[sorted_df[k].index]]])

ClusterIds(cluster_of) == {cluster_of[idx] : idx \in DOMAIN cluster_of}

SplitsInCluster(frame, cluster_of, c) ==
    {r.split : r \in {q \in Range(frame) : cluster_of[q.index] = c}}

\* mutant: a cluster with records of any two splits is counted
find_clusters_crossing_splits_AnyTwoSplits(frame, cluster_of) ==
    Cardinality({c \in ClusterIds(cluster_of) :
                    Cardinality(SplitsInCluster(frame, cluster_of, c)) > 1})

find_clusters_crossing_splits(frame, cluster_of) ==
    Cardinality({c \in ClusterIds(cluster_of) :
                    /\ "train" \in SplitsInCluster(frame, cluster_of, c)
                    /\ "test" \in SplitsInCluster(frame, cluster_of, c)})

\* an inventory without a timestamp_ms column reads as one whose
\* timestamps are all missing: both give the skipped report
temporal_leakage_report(frame) ==
    IF CoverageTooLow(frame)
    THEN [temporal_check_status |-> "skipped_insufficient_timestamps",
          temporal_clusters_crossing_splits |-> NoneVal,
          total_clusters |-> NoneVal]
    ELSE LET cluster_of == detect_temporal_clusters(frame, DEFAULT_SESSION_GAP_MS)
         IN  [temporal_check_status |-> "completed",
              temporal_clusters_crossing_splits |->
                  find_clusters_crossing_splits(frame, cluster_of),
              total_clusters |-> Cardinality(ClusterIds(cluster_of))]

SkippedByUser ==
    [temporal_check_status |-> "skipped_by_user",
     temporal_clusters_crossing_splits |-> NoneVal,
     total_clusters |-> NoneVal]

-----------------------------------------------------------------------------
(* validation.py.  A message is the record of what its text names. *)

MIN_TRAIN_SAMPLES == 100
MIN_TRAIN_DURATION_SEC == 600
MIN_VAL_TEST_SAMPLES == 20
MIN_VAL_TEST_DURATION_SEC == 120

\* DISTRIBUTION_BALANCE_THRESHOLD_PCT = 20.0
DISTRIBUTION_BALANCE_THRESHOLD_PCT == 20

Issue(check, split, found, minimum) ==
    [check |-> check, split |-> split, found |-> found, minimum |-> minimum]

IssueIf(cond, issue) == IF cond THEN <<issue>> ELSE <<>>

\* mutant: a count equal to its minimum is reported as too small
sample_errors_AtMinimum(frame) ==
    IssueIf(SplitCount(frame, "train") <= MIN_TRAIN_SAMPLES,
            Issue("samples", "train", SplitCount(frame, "train"), MIN_TRAIN_SAMPLES))
    \o IssueIf(SplitCount(frame, "val") <= MIN_VAL_TEST_SAMPLES,
            Issue("samples", "val", SplitCount(frame, "val"), MIN_VAL_TEST_SAMPLES))
    \o IssueIf(SplitCount(frame, "test") <= MIN_VAL_TEST_SAMPLES,
            Issue("samples", "test", SplitCount(frame, "test"), MIN_VAL_TEST_SAMPLES))

sample_errors(frame) ==
    IssueIf(SplitCount(frame, "train") < MIN_TRAIN_SAMPLES,
            Issue("samples", "train", SplitCount(frame, "train"), MIN_TRAIN_SAMPLES))
    \o IssueIf(SplitCount(frame, "val") < MIN_VAL_TEST_SAMPLES,
            Issue("samples", "val", SplitCount(frame, "val"), MIN_VAL_TEST_SAMPLES))
    \o IssueIf(SplitCount(frame, "test") < MIN_VAL_TEST_SAMPLES,
            Issue("samples", "test", SplitCount(frame, "test"), MIN_VAL_TEST_SAMPLES))

duration_errors(frame) ==
    IssueIf(SplitDuration(frame, "train") < MIN_TRAIN_DURATION_SEC,
            Issue("duration", "train", SplitDuration(frame, "train"), MIN_TRAIN_DURATION_SEC))
    \o IssueIf(SplitDuration(frame, "val") < MIN_VAL_TEST_DURATION_SEC,
            Issue("duration", "val", SplitDuration(frame, "val"), MIN_VAL_TEST_DURATION_SEC))
    \o IssueIf(SplitDuration(frame, "test") < MIN_VAL_TEST_DURATION_SEC,
            Issue("duration", "test", SplitDuration(frame, "test"), MIN_VAL_TEST_DURATION_SEC))

\* mutant: under the override the two flags report no violation either
validate_split_sizes_FlagsFollowOverride(frame, allow_small_splits) ==
    LET all_issues == sample_errors(frame) \o duration_errors(frame)
    IN  [passed |-> allow_small_splits \/ all_issues = <<>>,
         sample_validation_passed |-> allow_small_splits \/ sample_errors(frame) = <<>>,
         duration_validation_passed |-> allow_small_splits \/ duration_errors(frame) = <<>>,
         warnings |-> IF allow_small_splits THEN all_issues ELSE <<>>,
         errors |-> IF allow_small_splits THEN <<>> ELSE all_issues]

validate_split_sizes(frame, allow_small_splits) ==
    LET all_issues == sample_errors(frame) \o duration_errors(frame)
    IN  [passed |-> allow_small_splits \/ all_issues = <<>>,
         sample_validation_passed |-> sample_errors(frame) = <<>>,
         duration_validation_passed |-> duration_errors(frame) = <<>>,
         warnings |-> IF allow_small_splits THEN all_issues ELSE <<>>,
         errors |-> IF allow_small_splits THEN <<>> ELSE all_issues]

\* value_counts(normalize=True) of the categorical duration_bin column of a
\* split: every category is a key, an unobserved one with proportion 0;
\* the keys come by descending count, ties in category order.
BinCount(rows, bin_label) ==
    Cardinality({k \in DOMAIN rows : rows[k].duration_bin = bin_label})

BinsByCount(rows, categories) ==
    LET Cat(i) == [bin |-> categories[i], count |-> BinCount(rows, categories[i])]
        Gt(a, b) == a.count > b.count
    IN  SortRows([i \in DOMAIN categories |-> Cat(i)], Gt)

\* Python float arithmetic (IEEE 754 binary64, round to nearest, ties to
\* even) on positive numbers.  The integers of the model have 32 bits, so a
\* natural below 2^58 is the pair <<hi, lo>> = hi * 2^27 + lo, and a float
\* is [m, e] = m * 2^e with a mantissa m of 53 bits, or FloatZero.
LimbBase == 2^27

MantissaTop == 2^26

FloatZero == [m |-> <<0, 0>>, e |-> 0]

WideGeq(a, b) == a[1] > b[1] \/ (a[1] = b[1] /\ a[2] >= b[2])

WideMinus(a, b) ==
    IF a[2] >= b[2] THEN <<a[1] - b[1], a[2] - b[2]>>
    ELSE <<a[1] - b[1] - 1, a[2] + LimbBase - b[2]>>

WidePlus(a, b) ==
    <<a[1] + b[1] + (a[2] + b[2]) \div LimbBase, (a[2] + b[2]) % LimbBase>>

WideHalf(a) == <<a[1] \div 2, (a[1] % 2) * (LimbBase \div 2) + a[2] \div 2>>

\* the number of binary digits of a natural below 2^30
BitLength(n) == CHOOSE k \in 0..30 : n < 2^k /\ (k = 0 \/ n >= 2^(k - 1))

\* a * 2^k, the product below 2^58
WideShiftLeft(a, k) ==
    LET Shift(hi, lo, j) ==
            <<hi * 2^j + lo \div 2^(27 - j), (lo % 2^(27 - j)) * 2^j>>
    IN  IF k < 27 THEN Shift(a[1], a[2], k) ELSE Shift(a[2], 0, k - 27)

WideBitLength(a) == IF a[1] > 0 THEN 27 + BitLength(a[1]) ELSE BitLength(a[2])

\* a natural of at most 53 bits, not 0, as a float: nothing is rounded
NormalizeUp(v, e) ==
    [m |-> WideShiftLeft(v, 53 - WideBitLength(v)), e |-> e - (53 - WideBitLength(v))]

\* a natural of 53 bits or more: the bits below the 53rd are dropped, the
\* last one dropped is round_bit and sticky tells whether an earlier one was 1
RECURSIVE RoundNearestEven(_, _, _, _)
RoundNearestEven(v, e, round_bit, sticky) ==
    IF v[1] >= MantissaTop
    THEN RoundNearestEven(WideHalf(v), e + 1, v[2] % 2, sticky \/ round_bit = 1)
    ELSE IF round_bit = 1 /\ (sticky \/ v[2] % 2 = 1)
         THEN LET up == WidePlus(v, <<0, 1>>)
              IN  IF up[1] >= MantissaTop THEN [m |-> WideHalf(up), e |-> e + 1]
                  ELSE [m |-> up, e |-> e]
         ELSE [m |-> v, e |-> e]

\* the float nearest to v * 2^e
FloatOf(v, e) ==
    IF v = <<0, 0>> THEN FloatZero
    ELSE IF v[1] < MantissaTop \div 2 THEN NormalizeUp(v, e)
    ELSE RoundNearestEven(v, e, 0, FALSE)

\* float(n) of a small natural
FloatOfInt(n) == FloatOf(<<0, n>>, 0)

\* a * d for d < 16, the product below 2^58
WideTimes(a, d) == <<a[1] * d + (a[2] * d) \div LimbBase, (a[2] * d) % LimbBase>>

\* one more hexadecimal digit of a quotient; state is <<quotient, remainder>>
DivisionStep(state, divisor) ==
    LET r == WideShiftLeft(state[2], 4)
        digit == Cardinality({d \in 1..15 : WideGeq(r, WideTimes(divisor, d))})
    IN  <<WidePlus(WideShiftLeft(state[1], 4), <<0, digit>>),
          WideMinus(r, WideTimes(divisor, digit))>>

\* digit after digit until the quotient has 56 bits
RECURSIVE LongDivision(_, _)
LongDivision(state, divisor) ==
    IF WideBitLength(state[1]) >= 56 THEN state
    ELSE LongDivision(DivisionStep(state, divisor), divisor)

\* x / y: the quotient of the mantissas to 14 hexadecimal places, which has
\* 56 or 57 bits, rounded to 53; a remainder counts as a dropped bit
FloatDivide(x, y) ==
    IF x = FloatZero THEN FloatZero
    ELSE LET first == IF WideGeq(x.m, y.m) THEN <<<<0, 1>>, WideMinus(x.m, y.m)>>
                      ELSE <<<<0, 0>>, x.m>>
             qr == LongDivision(first, y.m)
         IN  RoundNearestEven(qr[1], x.e - y.e - 56, 0, qr[2] # <<0, 0>>)

\* abs(x - y) for x and y less than 2^5 apart in magnitude
FloatAbsDifference(x, y) ==
    IF x = FloatZero THEN y
    ELSE IF y = FloatZero THEN x
    ELSE LET e == IF x.e < y.e THEN x.e ELSE y.e
             a == WideShiftLeft(x.m, x.e - e)
             b == WideShiftLeft(y.m, y.e - e)
         IN  FloatOf(IF WideGeq(a, b) THEN WideMinus(a, b) ELSE WideMinus(b, a), e)

\* x * 100 = (x * 25) * 2^2, and x * 25 = x * 16 + x * 8 + x
FloatTimes100(x) ==
    FloatOf(WidePlus(WidePlus(WideShiftLeft(x.m, 4), WideShiftLeft(x.m, 3)), x.m), x.e + 2)

\* x > y
FloatGreater(x, y) ==
    IF x = FloatZero THEN FALSE
    ELSE IF y = FloatZero THEN TRUE
    ELSE x.e > y.e \/ (x.e = y.e /\ x.m # y.m /\ WideGeq(x.m, y.m))

\* abs(split_prop - train_prop) / train_prop * 100 > threshold_pct with
\* split_prop = sc / sn and train_prop = tc / tn, operation by operation
FloatDiffersTooMuch(sc, sn, tc, tn, threshold_pct) ==
    LET train_prop == FloatDivide(FloatOfInt(tc), FloatOfInt(tn))
        split_prop == FloatDivide(FloatOfInt(sc), FloatOfInt(sn))
        diff_pct == FloatTimes100(FloatDivide(FloatAbsDifference(split_prop, train_prop),
                                              train_prop))
    IN  FloatGreater(diff_pct, FloatOfInt(threshold_pct))

\* diff_pct > threshold_pct.  Each of the float operations is off by less
\* than one part in 2^52, so away from the threshold the comparison comes
\* out as in exact arithmetic; where the exact deviation equals the
\* threshold, the rounding decides.
DiffersTooMuch(sc, sn, tc, tn, threshold_pct) ==
    LET d == sc * tn - tc * sn
        abs_d == IF d < 0 THEN 0 - d ELSE d
    IN  IF abs_d * 100 = threshold_pct * tc * sn
        THEN FloatDiffersTooMuch(sc, sn, tc, tn, threshold_pct)
        ELSE abs_d * 100 > threshold_pct * tc * sn

BalanceWarningsOf(frame, categories, split) ==
    LET train_df == RowsOfSplit(frame, "train")
        split_df == RowsOfSplit(frame, split)
        train_bins == BinsByCount(train_df, categories)
        split_bins == BinsByCount(split_df, categories)
        TrainKeys == {train_bins[k].bin : k \in DOMAIN train_bins}
        Differs[k \in 0..Len(train_bins)] ==
            IF k = 0 THEN <<>>
            ELSE IF /\ train_bins[k].count > 0
                    /\ DiffersTooMuch(BinCount(split_df, train_bins[k].bin), Len(split_df),
                                      train_bins[k].count, Len(train_df),
                                      DISTRIBUTION_BALANCE_THRESHOLD_PCT)
                 THEN Append(Differs[k - 1],
                             [warning |-> "differs", split |-> split, bin |-> train_bins[k].bin])
                 ELSE Differs[k - 1]
        Absent[k \in 0..Len(split_bins)] ==
            IF k = 0 THEN <<>>
            ELSE IF split_bins[k].bin \notin TrainKeys /\ split_bins[k].count > 0
                 THEN Append(Absent[k - 1],
                             [warning |-> "not_in_train", split |-> split,
                              bin |-> split_bins[k].bin])
                 ELSE Absent[k - 1]
    IN  IF Len(split_df) = 0
        THEN <<[warning |-> "split_empty", split |-> split, bin |-> NoBin]>>
        ELSE Differs[Len(train_bins)] \o Absent[Len(split_bins)]

check_distribution_balance(frame, categories) ==
    IF SplitCount(frame, "train") = 0
    THEN <<[warning |-> "train_empty", split |-> "train", bin |-> NoBin]>>
    ELSE BalanceWarningsOf(frame, categories, "val")
         \o BalanceWarningsOf(frame, categories, "test")

-----------------------------------------------------------------------------
(* reporting.py *)

\* mutant: the path is written relative to the run's output directory
make_relative_ToOutDir(abs_path, manifest_base_dir) ==
    abs_path + 1000 * manifest_base_dir

\* make_relative: an audio path outside the fresh output directory is
\* written as it is (both relative_to calls raise ValueError)
make_relative(abs_path, manifest_base_dir) == abs_path

\* the manifest columns that the claims read; the constant columns
\* (dataset_version, source, recording_device) and the transcript length
\* columns are copied through by the code and are left out
ManifestRow(row, manifest_base_dir) ==
    [file_name |-> row.file_name,
     manifest_row_index |-> row.manifest_row_index,
     audio_path_resolved |-> make_relative(row.audio_path_resolved, manifest_base_dir),
     duration_sec |-> row.duration_sec,
     duration_bin |-> row.duration_bin,
     transcript_raw |-> row.transcript_raw,
     timestamp_ms |-> row.timestamp_ms,
     audio_sha256 |-> row.audio_sha256,
     transcript_sha256 |-> row.transcript_sha256,
     pair_sha256 |-> row.pair_sha256,
     split |-> row.split,
     duplicate_audio_flag |-> row.duplicate_audio_flag]

generate_manifest_csv(frame, manifest_base_dir) ==
    LET Row(row) == ManifestRow(row, manifest_base_dir)
    IN  MapRows(frame, Row)

EXCLUDED_COLUMNS ==
    <<"file_name", "manifest_row_index", "excluded_reason", "audio_sha256",
      "transcript_sha256">>

\* columns_to_write = [c for c in columns if c in excluded_df.columns]:
\* pd.DataFrame([]) has no columns
generate_excluded_csv(excluded) ==
    [header |-> IF Len(excluded) > 0 THEN EXCLUDED_COLUMNS ELSE <<>>,
     rows |-> excluded]

FrozenRow(row) ==
    [file_name |-> row.file_name,
     pair_sha256 |-> row.pair_sha256,
     audio_sha256 |-> row.audio_sha256,
     transcript_sha256 |-> row.transcript_sha256]

generate_frozen_test_csv(frame) == MapRows(RowsOfSplit(frame, "test"), FrozenRow)

ReasonCount(excluded, reason) ==
    Cardinality({k \in DOMAIN excluded : excluded[k].excluded_reason = reason})

generate_summary_json(frame, excluded, validation, temporal, config, now) ==
    [input_manifest_rows |-> Len(frame) + Len(excluded),
     excluded_count |-> Len(excluded),
     included_count |-> Len(frame),
     split_counts |-> [s \in {"train", "val", "test"} |-> SplitCount(frame, s)],
     duplicate_audio_different_transcript_count |->
         Cardinality({k \in DOMAIN frame : frame[k].duplicate_audio_flag}),
     temporal_clusters_crossing_splits |-> temporal.temporal_clusters_crossing_splits,
     temporal_check_status |-> temporal.temporal_check_status,
     min_sample_validation_passed |-> validation.sample_validation_passed,
     min_duration_validation_passed |-> validation.duration_validation_passed,
     split_quality_warnings |-> validation.warnings,
     created_timestamp |-> now,
     seed |-> config.seed]

-----------------------------------------------------------------------------
(* data_inventory: the producer of inventory_files.csv *)

\* transcript.py: analyze_transcript(text)["transcript_is_blank"]: the text
\* is None, empty (NaN when the CSV is read back) or whitespace only
analyze_transcript_is_blank(text) == text = NaN \/ text = " "

\* cli.py: process_file; kinds[p] describes the p-th row of the CSV and
\* mri[p] is its manifest row index (the CSV is sorted by file name, so
\* any order of the manifest row indices can occur)
InventoryRow(p, kind, manifest_row_index) ==
    [index |-> p - 1,
     file_name |-> manifest_row_index,
     manifest_row_index |-> manifest_row_index,
     audio_path_resolved |-> manifest_row_index,
     duration_sec |-> kind.duration_sec,
     audio_read_ok |-> kind.audio_read_ok,
     transcript_is_blank |-> analyze_transcript_is_blank(kind.transcript_raw),
     transcript_raw |-> kind.transcript_raw,
     timestamp_ms |-> kind.timestamp_ms]

ManifestIndexOf(p, n, order) == IF order = "ascending" THEN p - 1 ELSE n - p

InventoryRows(kinds, order) ==
    [p \in DOMAIN kinds |->
        InventoryRow(p, kinds[p], ManifestIndexOf(p, Len(kinds), order))]

\* the audio files the rows point to, as they are when they are hashed
FilesOf(kinds, order) ==
    [path \in {ManifestIndexOf(p, Len(kinds), order) : p \in DOMAIN kinds} |->
        kinds[CHOOSE p \in DOMAIN kinds :
                  ManifestIndexOf(p, Len(kinds), order) = path].bytes]

Kind(bytes, read_ok, duration, text, timestamp) ==
    [bytes |-> bytes, audio_read_ok |-> read_ok, duration_sec |-> duration,
     transcript_raw |-> text, timestamp_ms |-> timestamp]

\* sequences of length lo..hi over a set
SeqsUpTo(S, lo, hi) == UNION {[1..n -> S] : n \in lo..hi}

-----------------------------------------------------------------------------
(* cli.py: run_versioning, one action per phase *)

NoReport == [temporal_check_status |-> "none",
             temporal_clusters_crossing_splits |-> NoneVal,
             total_clusters |-> NoneVal]

NoValidation == [passed |-> TRUE, sample_validation_passed |-> TRUE,
                 duration_validation_passed |-> TRUE,
                 warnings |-> <<>>, errors |-> <<>>]

NoFiles == [out_dir |-> NoneVal, written |-> {}, manifest |-> <<>>,
            excluded |-> [header |-> <<>>, rows |-> <<>>],
            frozen_test |-> <<>>, summary |-> <<>>, report |-> <<>>]

NoPrevious == [exists |-> FALSE, args |-> <<>>, inventory_csv |-> <<>>, fs |-> <<>>,
               included_df |-> <<>>, out_files |-> NoFiles, exit_code |-> NoneVal,
               temporal_report |-> NoReport, validation_result |-> NoValidation]

Arguments(train, val, test, seed, bins, skip, allow) ==
    [train_ratio |-> train, val_ratio |-> val, test_ratio |-> test, seed |-> seed,
     duration_bins |-> bins, skip_temporal_check |-> skip, allow_small_splits |-> allow]

\* return <code>
Return(code) ==
    /\ pc' = "done"
    /\ exit_code' = code

\* lines 119-140: the ratios and the bin edges
ValidateArguments ==
    /\ pc = "start"
    /\ IF RatiosRejected(args.train_ratio, args.val_ratio, args.test_ratio)
       THEN Return(1)
       ELSE IF Len(args.duration_bins) < 2
       THEN Return(1)
       ELSE IF ~BinsIncrease(args.duration_bins)
       THEN Return(1)
       ELSE pc' = "load" /\ exit_code' = exit_code
    /\ UNCHANGED <<fs, inventory_csv, args, clock, df, included_df, excluded_df,
                   temporal_report, validation_result, out_files, previous>>

\* lines 142-180: the output directory is made, the inventory is read
LoadInventory ==
    /\ pc = "load"
    /\ out_files' = [out_files EXCEPT !.out_dir = clock]
    /\ IF inventory_csv.state # "ok"
       THEN Return(1) /\ df' = df
       ELSE pc' = "phase1" /\ exit_code' = exit_code /\ df' = inventory_csv.rows
    /\ UNCHANGED <<fs, inventory_csv, args, clock, included_df, excluded_df,
                   temporal_report, validation_result, previous>>

\* lines 182-196; an exception leaves run_versioning and main returns 1
Phase1 ==
    /\ pc = "phase1"
    /\ IF HashingRaises(df)
       THEN Return(1) /\ df' = df
       ELSE pc' = "phase2" /\ exit_code' = exit_code
            /\ df' = compute_hashes_for_dataframe(df)
    /\ UNCHANGED <<fs, inventory_csv, args, clock, included_df, excluded_df,
                   temporal_report, validation_result, out_files, previous>>

\* lines 198-209
Phase2 ==
    /\ pc = "phase2"
    /\ included_df' = apply_cleaning_rules(df).included_df
    /\ excluded_df' = apply_cleaning_rules(df).excluded_df
    /\ IF Len(included_df') = 0
       THEN Return(2)
       ELSE pc' = "flag" /\ exit_code' = exit_code
    /\ UNCHANGED <<fs, inventory_csv, args, clock, df,
                   temporal_report, validation_result, out_files, previous>>

\* lines 211-215
FlagDuplicateAudio ==
    /\ pc = "flag"
    /\ included_df' = detect_duplicate_audio_different_transcript(included_df)
    /\ pc' = "phase3"
    /\ UNCHANGED <<fs, inventory_csv, args, clock, df, excluded_df, temporal_report,
                   validation_result, out_files, exit_code, previous>>

\* bin_edges = [0] + duration_bins + [inf]
\* mutant: the edge 0 is not put before the configured edges
BinEdges_WithoutZero(duration_bins) == duration_bins \o <<Inf>>

BinEdges(duration_bins) == <<0>> \o duration_bins \o <<Inf>>

\* lines 217-222; pd.cut raises ValueError on edges that do not increase
Phase3 ==
    /\ pc = "phase3"
    /\ IF ~BinsIncrease(BinEdges(args.duration_bins))
       THEN Return(1) /\ included_df' = included_df
       ELSE pc' = "phase4" /\ exit_code' = exit_code
            /\ included_df' = assign_duration_bins(included_df, BinEdges(args.duration_bins))
    /\ UNCHANGED <<fs, inventory_csv, args, clock, df, excluded_df, temporal_report,
                   validation_result, out_files, previous>>

\* lines 224-240; stratified_split raises ValueError on rejected ratios
Phase4 ==
    /\ pc = "phase4"
    /\ IF RatiosRejected(args.train_ratio, args.val_ratio, args.test_ratio)
       THEN Return(1) /\ included_df' = included_df
       ELSE pc' = "phase5" /\ exit_code' = exit_code
            /\ included_df' = stratified_split(included_df, args.train_ratio,
                                               args.val_ratio, args.test_ratio, args.seed)
    /\ UNCHANGED <<fs, inventory_csv, args, clock, df, excluded_df, temporal_report,
                   validation_result, out_files, previous>>

\* lines 242-256
Phase5 ==
    /\ pc = "phase5"
    /\ temporal_report' = IF args.skip_temporal_check THEN SkippedByUser
                          ELSE temporal_leakage_report(included_df)
    /\ pc' = "phase6"
    /\ UNCHANGED <<fs, inventory_csv, args, clock, df, included_df, excluded_df,
                   validation_result, out_files, exit_code, previous>>

\* mutant: a finding of the distribution check is an error of the run
Validated_BalanceAsErrors(frame, config) ==
    LET result == validate_split_sizes(frame, config.allow_small_splits)
        distribution_warnings ==
            check_distribution_balance(frame, BinCategories(BinEdges(config.duration_bins)))
    IN  [result EXCEPT !.errors = @ \o distribution_warnings,
                       !.passed = @ /\ distribution_warnings = <<>>]

\* validate_split_sizes, then warnings.extend(distribution_warnings)
Validated(frame, config) ==
    LET result == validate_split_sizes(frame, config.allow_small_splits)
        distribution_warnings ==
            check_distribution_balance(frame, BinCategories(BinEdges(config.duration_bins)))
    IN  [result EXCEPT !.warnings = @ \o distribution_warnings]

\* mutant: the excluded list is written before the outcome of the validation
\* is looked at
Phase6_ExcludedListFirst ==
    /\ pc = "phase6"
    /\ validation_result' = Validated(included_df, args)
    /\ out_files' = [out_files EXCEPT !.written = {"dataset_v1_excluded.csv"},
                                      !.excluded = generate_excluded_csv(excluded_df)]
    /\ IF ~validation_result'.passed /\ ~args.allow_small_splits
       THEN Return(2)
       ELSE pc' = "phase7" /\ exit_code' = exit_code
    /\ UNCHANGED <<fs, inventory_csv, args, clock, df, included_df, excluded_df,
                   temporal_report, previous>>

\* mutant: the override is not looked at, anything reported halts the run
Phase6_HaltsOnWarnings ==
    /\ pc = "phase6"
    /\ validation_result' = Validated(included_df, args)
    /\ IF validation_result'.errors # <<>> \/ validation_result'.warnings # <<>>
       THEN Return(2)
       ELSE pc' = "phase7" /\ exit_code' = exit_code
    /\ UNCHANGED <<fs, inventory_csv, args, clock, df, included_df, excluded_df,
                   temporal_report, out_files, previous>>

\* mutant: a positive crossing count fails the run like a validation error
Phase6_BlocksOnCrossing ==
    /\ pc = "phase6"
    /\ validation_result' = Validated(included_df, args)
    /\ IF \/ ~validation_result'.passed /\ ~args.allow_small_splits
          \/ temporal_report.temporal_clusters_crossing_splits > 0
       THEN Return(2)
       ELSE pc' = "phase7" /\ exit_code' = exit_code
    /\ UNCHANGED <<fs, inventory_csv, args, clock, df, included_df, excluded_df,
                   temporal_report, out_files, previous>>

\* lines 258-280
Phase6 ==
    /\ pc = "phase6"
    /\ validation_result' = Validated(included_df, args)
    /\ IF ~validation_result'.passed /\ ~args.allow_small_splits
       THEN Return(2)
       ELSE pc' = "phase7" /\ exit_code' = exit_code
    /\ UNCHANGED <<fs, inventory_csv, args, clock, df, included_df, excluded_df,
                   temporal_report, out_files, previous>>

\* lines 282-351
Phase7 ==
    /\ pc = "phase7"
    /\ out_files' =
          [out_dir |-> out_files.out_dir,
           written |-> {"dataset_v1_manifest.csv", "dataset_v1_excluded.csv",
                        "test_set_v1_frozen.csv", "dataset_v1_summary.json",
                        "dataset_v1_report.md"},
           manifest |-> generate_manifest_csv(included_df, out_files.out_dir),
           excluded |-> generate_excluded_csv(excluded_df),
           frozen_test |-> generate_frozen_test_csv(included_df),
           summary |-> <<generate_summary_json(included_df, excluded_df, validation_result,
                                               temporal_report, args, clock)>>,
           report |-> <<generate_summary_json(included_df, excluded_df, validation_result,
                                              temporal_report, args, clock)>>]
    /\ Return(0)
    /\ UNCHANGED <<fs, inventory_csv, args, clock, df, included_df, excluded_df,
                   temporal_report, validation_result, previous>>

-----------------------------------------------------------------------------
(* The environment: the inventory, the audio files, and the next run *)

\* read_csv gives the rows a RangeIndex
Reindex(rows) == [p \in DOMAIN rows |-> [rows[p] EXCEPT !.index = p - 1]]

Reversed(rows) == Reindex([p \in DOMAIN rows |-> rows[Len(rows) + 1 - p]])

Without(rows, k) ==
    Reindex(SubSeq(rows, 1, k - 1) \o SubSeq(rows, k + 1, Len(rows)))

\* a new manifest row, with a manifest row index above the present ones
FreshIndex(rows) == Len(rows)

WithNewRow(rows, kind) ==
    Append(rows, InventoryRow(Len(rows) + 1, kind, FreshIndex(rows)))

WithNewFile(files, rows, kind) ==
    [path \in DOMAIN files \cup {FreshIndex(rows)} |->
        IF path = FreshIndex(rows) THEN kind.bytes ELSE files[path]]

Inventory(state, rows) == [state |-> state, rows |-> rows]

\* the frame after phase 1, for the runs that start at phase 2
HashedFrame == compute_hashes_for_dataframe(inventory_csv.rows)

Archive ==
    [exists |-> TRUE, args |-> args, inventory_csv |-> inventory_csv, fs |-> fs,
     included_df |-> included_df, out_files |-> out_files, exit_code |-> exit_code,
     temporal_report |-> temporal_report, validation_result |-> validation_result]

Restart ==
    /\ pc' = "start"
    /\ clock' = clock + 1
    /\ df' = <<>>
    /\ included_df' = <<>>
    /\ excluded_df' = <<>>
    /\ temporal_report' = NoReport
    /\ validation_result' = NoValidation
    /\ out_files' = NoFiles
    /\ exit_code' = NoneVal

\* bounds of the inputs
MaxRows == 2
MaxTemporalRows == 4
MaxShortfall == 1
MaxCleanRows == 3
MaxSplitRows == 3
\* val holds up to this many records more or fewer of a bin than its share
MaxBinShift == 3

\* rows of an inventory as the producer writes them, and one whose audio
\* file cannot be read any more when it is hashed
PipelineKinds ==
    {Kind(1, TRUE, 1, "x", NoneVal),
     Kind(1, TRUE, 1, "y", 0),
     Kind(2, TRUE, 2, "x", 70000),
     Kind(2, TRUE, 4, "y", NoneVal),
     Kind(Unreadable, FALSE, NoneVal, "x", NoneVal),
     Kind(Unreadable, TRUE, 1, "x", NoneVal),
     Kind(3, TRUE, 0, "x", NoneVal),
     Kind(1, TRUE, 1, " ", NoneVal),
     Kind(1, TRUE, 1, NaN, NoneVal)}

PipelineArguments ==
    {Arguments(800, 100, 100, 42, <<1, 3>>, FALSE, FALSE),
     Arguments(800, 100, 100, 42, <<1, 3>>, FALSE, TRUE),
     Arguments(340, 340, 320, 42, <<1, 3>>, TRUE, TRUE),
     Arguments(500, 300, 100, 42, <<1, 3>>, FALSE, TRUE),
     Arguments(800, 100, 100, 42, <<3, 1>>, FALSE, TRUE),
     Arguments(800, 100, 100, 42, <<0, 2>>, FALSE, TRUE),
     Arguments(800, 100, 100, 42, <<1>>, FALSE, TRUE)}

IdleRun ==
    /\ clock = 1
    /\ df = <<>>
    /\ included_df = <<>>
    /\ excluded_df = <<>>
    /\ temporal_report = NoReport
    /\ validation_result = NoValidation
    /\ out_files = NoFiles
    /\ exit_code = NoneVal
    /\ previous = NoPrevious

Init ==
    /\ \/ \E kinds \in SeqsUpTo(PipelineKinds, 0, MaxRows),
             order \in {"ascending", "descending"} :
               /\ fs = FilesOf(kinds, order)
               /\ inventory_csv = Inventory("ok", InventoryRows(kinds, order))
       \/ \E state \in {"missing", "unreadable", "missing_columns"} :
               /\ fs = <<>>
               /\ inventory_csv = Inventory(state, <<>>)
    /\ args \in PipelineArguments
    /\ pc = "start"
    /\ IdleRun

\* the same command is run again on the same inventory
RunAgain ==
    /\ pc = "done" /\ exit_code = 0 /\ ~previous.exists
    /\ previous' = Archive
    /\ Restart
    /\ UNCHANGED <<fs, inventory_csv, args>>

\* a later dataset version: the inventory has one more row
NewVersion ==
    /\ pc = "done" /\ exit_code = 0 /\ ~previous.exists
    /\ \E kind \in PipelineKinds :
          /\ inventory_csv' = Inventory("ok", WithNewRow(inventory_csv.rows, kind))
          /\ fs' = WithNewFile(fs, inventory_csv.rows, kind)
    /\ previous' = Archive
    /\ Restart
    /\ UNCHANGED args

Next ==
    \/ ValidateArguments
    \/ LoadInventory
    \/ Phase1
    \/ Phase2
    \/ FlagDuplicateAudio
    \/ Phase3
    \/ Phase4
    \/ Phase5
    \/ Phase6
    \/ Phase7
    \/ RunAgain
    \/ NewVersion

Spec == Init /\ [][Next]_vars

-----------------------------------------------------------------------------
(* apply_cleaning_rules on its own: every frame of up to MaxCleanRows      *)
(* hashed rows over the values the rules tell apart                        *)

\* a file that cannot be read and is flagged so has no duration
CleanKinds ==
    ({Kind(b, r, d, "x", NoneVal) :
        b \in {Unreadable, 1}, r \in BOOLEAN, d \in {NoneVal, 0, 1}}
     \ {Kind(Unreadable, FALSE, d, "x", NoneVal) : d \in {0, 1}})
    \cup {Kind(2, TRUE, 1, "x", NoneVal), Kind(2, FALSE, NoneVal, "x", NoneVal)}
    \cup {Kind(1, TRUE, 1, " ", NoneVal), Kind(1, FALSE, NoneVal, " ", NoneVal),
          Kind(Unreadable, TRUE, 1, " ", NoneVal)}

InitClean ==
    /\ \E kinds \in SeqsUpTo(CleanKinds, 0, MaxCleanRows),
          order \in {"ascending", "descending"} :
            /\ fs = FilesOf(kinds, order)
            /\ inventory_csv = Inventory("ok", InventoryRows(kinds, order))
    /\ args = Arguments(800, 100, 100, 42, <<1, 3>>, FALSE, TRUE)
    /\ pc = "phase2"
    /\ clock = 1
    /\ df = HashedFrame
    /\ included_df = <<>>
    /\ excluded_df = <<>>
    /\ temporal_report = NoReport
    /\ validation_result = NoValidation
    /\ out_files = NoFiles
    /\ exit_code = NoneVal
    /\ previous = NoPrevious

NextClean == Phase2

SpecClean == InitClean /\ [][NextClean]_vars

-----------------------------------------------------------------------------
(* Phases 1 to 4 on every clean inventory of up to MaxSplitRows rows: the  *)
(* frame is split, the input is revised, and the frame is split again      *)

\* audio 1 and 2 last one second, audio 3 two seconds; one file cannot be
\* read when it is hashed and has no pair_sha256
SplitKinds ==
    {Kind(b, TRUE, 1, t, NoneVal) : b \in {1, 2}, t \in {"x", "y"}}
    \cup {Kind(3, TRUE, 2, "x", NoneVal), Kind(Unreadable, TRUE, 1, "x", NoneVal)}

SplitArguments ==
    {Arguments(800, 100, 100, 42, <<1, 3>>, FALSE, TRUE),
     Arguments(340, 340, 320, 42, <<1, 3>>, FALSE, TRUE),
     Arguments(1500, -250, -250, 42, <<1, 3>>, FALSE, TRUE),
     Arguments(500, 300, 100, 42, <<1, 3>>, FALSE, TRUE)}

InitSplit ==
    /\ \E kinds \in SeqsUpTo(SplitKinds, 1, MaxSplitRows) :
            /\ fs = FilesOf(kinds, "ascending")
            /\ inventory_csv = Inventory("ok", InventoryRows(kinds, "ascending"))
    /\ args \in SplitArguments
    /\ pc = "phase1"
    /\ clock = 1
    /\ df = inventory_csv.rows
    /\ included_df = <<>>
    /\ excluded_df = <<>>
    /\ temporal_report = NoReport
    /\ validation_result = NoValidation
    /\ out_files = NoFiles
    /\ exit_code = NoneVal
    /\ previous = NoPrevious

\* the revised input is read, hashed, cleaned, flagged and binned again
Resplit ==
    /\ pc' = "phase1"
    /\ clock' = clock + 1
    /\ previous' = Archive
    /\ df' = inventory_csv'.rows
    /\ included_df' = <<>>
    /\ excluded_df' = <<>>
    /\ UNCHANGED <<temporal_report, validation_result, out_files, exit_code>>

\* the seed is changed
ChangeSeed ==
    /\ pc = "phase5" /\ ~previous.exists
    /\ args' = [args EXCEPT !.seed = 7]
    /\ UNCHANGED <<fs, inventory_csv>>
    /\ Resplit

\* the rows come in another order
ReorderRows ==
    /\ pc = "phase5" /\ ~previous.exists
    /\ inventory_csv' = Inventory("ok", Reversed(inventory_csv.rows))
    /\ UNCHANGED <<fs, args>>
    /\ Resplit

\* a row is taken out of the inventory
RemoveRow ==
    /\ pc = "phase5" /\ ~previous.exists
    /\ \E k \in DOMAIN inventory_csv.rows :
          inventory_csv' = Inventory("ok", Without(inventory_csv.rows, k))
    /\ UNCHANGED <<fs, args>>
    /\ Resplit

\* a row is added to the inventory
AddRow ==
    /\ pc = "phase5" /\ ~previous.exists
    /\ \E kind \in SplitKinds :
          /\ inventory_csv' = Inventory("ok", WithNewRow(inventory_csv.rows, kind))
          /\ fs' = WithNewFile(fs, inventory_csv.rows, kind)
    /\ UNCHANGED args
    /\ Resplit

NextSplit ==
    \/ Phase1
    \/ Phase2
    \/ FlagDuplicateAudio
    \/ Phase3
    \/ Phase4
    \/ ChangeSeed
    \/ ReorderRows
    \/ RemoveRow
    \/ AddRow

SpecSplit == InitSplit /\ [][NextSplit]_vars

-----------------------------------------------------------------------------
(* The temporal check on its own: rows of one duration bin that differ in  *)
(* their timestamps are hashed, cleaned, split and checked; then the same  *)
(* inventory is run again with other timestamps, or with the check skipped *)

\* no timestamp, two stamps DEFAULT_SESSION_GAP_MS apart (one session), and
\* one a millisecond more than the gap after them (the next session)
Timestamps == {NoneVal, 0, 60000, 120001}

\* row p has audio p, lasts one second and has the timestamp given for it
TimedKinds(stamps) == [p \in DOMAIN stamps |-> Kind(p, TRUE, 1, "x", stamps[p])]

TemporalArguments ==
    {Arguments(340, 340, 320, 42, <<1, 3>>, FALSE, TRUE),
     Arguments(800, 100, 100, 42, <<1, 3>>, FALSE, TRUE),
     Arguments(800, 100, 100, 42, <<1, 3>>, FALSE, FALSE)}

InitTemporal ==
    /\ \E stamps \in SeqsUpTo(Timestamps, 1, MaxTemporalRows) :
            /\ fs = FilesOf(TimedKinds(stamps), "ascending")
            /\ inventory_csv = Inventory("ok", InventoryRows(TimedKinds(stamps), "ascending"))
    /\ args \in TemporalArguments
    /\ pc = "phase1"
    /\ clock = 1
    /\ df = inventory_csv.rows
    /\ included_df = <<>>
    /\ excluded_df = <<>>
    /\ temporal_report = NoReport
    /\ validation_result = NoValidation
    /\ out_files = [NoFiles EXCEPT !.out_dir = clock]
    /\ exit_code = NoneVal
    /\ previous = NoPrevious

\* the run is over; the next one reads the inventory as it is then
Rerun ==
    /\ pc = "done" /\ ~previous.exists
    /\ pc' = "phase1"
    /\ clock' = clock + 1
    /\ previous' = Archive
    /\ df' = inventory_csv'.rows
    /\ included_df' = <<>>
    /\ excluded_df' = <<>>
    /\ temporal_report' = NoReport
    /\ validation_result' = NoValidation
    /\ out_files' = [NoFiles EXCEPT !.out_dir = clock + 1]
    /\ exit_code' = NoneVal

Retimed(rows, Stamp(_)) ==
    [p \in DOMAIN rows |-> [rows[p] EXCEPT !.timestamp_ms = Stamp(rows[p].timestamp_ms)]]

\* the same command with --skip_temporal_check
SkipTemporalCheck ==
    /\ ~args.skip_temporal_check
    /\ args' = [args EXCEPT !.skip_temporal_check = TRUE]
    /\ UNCHANGED <<fs, inventory_csv>>
    /\ Rerun

\* the inventory loses its timestamps
DropTimestamps ==
    /\ \E p \in DOMAIN inventory_csv.rows : inventory_csv.rows[p].timestamp_ms # NoneVal
    /\ LET None(t) == NoneVal
       IN  inventory_csv' = Inventory("ok", Retimed(inventory_csv.rows, None))
    /\ UNCHANGED <<fs, args>>
    /\ Rerun

\* the recordings are twice as far apart: each is a session of its own
SpreadTimestamps ==
    /\ \E p \in DOMAIN inventory_csv.rows : inventory_csv.rows[p].timestamp_ms > 0
    /\ LET Twice(t) == IF t = NoneVal THEN NoneVal ELSE 2 * t
       IN  inventory_csv' = Inventory("ok", Retimed(inventory_csv.rows, Twice))
    /\ UNCHANGED <<fs, args>>
    /\ Rerun

NextTemporal ==
    \/ Phase1
    \/ Phase2
    \/ FlagDuplicateAudio
    \/ Phase3
    \/ Phase4
    \/ Phase5
    \/ Phase6
    \/ Phase7
    \/ SkipTemporalCheck
    \/ DropTimestamps
    \/ SpreadTimestamps

SpecTemporal == InitTemporal /\ [][NextTemporal]_vars

-----------------------------------------------------------------------------

(* validate_split_sizes on its own: split frames whose sizes and total     *)
(* durations lie around the thresholds are handed to phase 6              *)

\* the counts within MaxShortfall of a minimum
Around(minimum) == (minimum - MaxShortfall)..(minimum + MaxShortfall)

\* seconds per record: MIN_TRAIN_SAMPLES records of 6 s last exactly
\* MIN_TRAIN_DURATION_SEC, MIN_VAL_TEST_SAMPLES of them exactly
\* MIN_VAL_TEST_DURATION_SEC
RecordDurations == {5, 6, 7}

\* n records of one split and one duration, in the last duration bin
SplitRows(split, n, duration, first) ==
    [k \in 1..n |->
        [index |-> first + k - 1, manifest_row_index |-> first + k - 1,
         file_name |-> first + k - 1, duration_sec |-> duration,
         duration_bin |-> CutRight(duration, BinEdges(<<1, 3>>)), split |-> split]]

SizedFrame(n_train, d_train, n_val, d_val, n_test, d_test) ==
    SplitRows("train", n_train, d_train, 0)
    \o SplitRows("val", n_val, d_val, n_train)
    \o SplitRows("test", n_test, d_test, n_train + n_val)

InitValidate ==
    /\ \E n_train \in Around(MIN_TRAIN_SAMPLES),
          n_val \in Around(MIN_VAL_TEST_SAMPLES),
          n_test \in Around(MIN_VAL_TEST_SAMPLES),
          d_train \in RecordDurations, d_val \in RecordDurations,
          d_test \in RecordDurations :
            included_df = SizedFrame(n_train, d_train, n_val, d_val, n_test, d_test)
    /\ \E allow \in BOOLEAN :
            args = Arguments(800, 100, 100, 42, <<1, 3>>, TRUE, allow)
    /\ pc = "phase6"
    /\ clock = 1
    /\ fs = <<>>
    /\ inventory_csv = Inventory("ok", <<>>)
    /\ df = <<>>
    /\ excluded_df = <<>>
    /\ temporal_report = SkippedByUser
    /\ validation_result = NoValidation
    /\ out_files = [NoFiles EXCEPT !.out_dir = clock]
    /\ exit_code = NoneVal
    /\ previous = NoPrevious

NextValidate == Phase6

SpecValidate == InitValidate /\ [][NextValidate]_vars

-----------------------------------------------------------------------------

(* check_distribution_balance on its own: split frames of two filled       *)
(* duration bins, whose proportions in val lie around those in train, are  *)
(* handed to phase 6                                                       *)

\* the bin edges of these runs: a record of 6 s is in (1, 8], one of 9 s in
\* (8, Inf], and MIN_TRAIN_SAMPLES or MIN_VAL_TEST_SAMPLES records of
\* either duration last long enough
BalanceBins == <<1, 8>>

\* n records of one split, the first n_short of them of 6 s, the others of 9 s
BalanceRows(split, n, n_short, first) ==
    [k \in 1..n |->
        LET duration == IF k <= n_short THEN 6 ELSE 9
        IN  [index |-> first + k - 1, manifest_row_index |-> first + k - 1,
             file_name |-> first + k - 1, duration_sec |-> duration,
             duration_bin |-> CutRight(duration, BinEdges(BalanceBins)),
             split |-> split]]

\* a shape is <<the records of a split, those of them in (1, 8]>>
BalancedFrame(train, val, test) ==
    BalanceRows("train", train[1], train[2], 0)
    \o BalanceRows("val", val[1], val[2], train[1])
    \o BalanceRows("test", test[1], test[2], train[1] + val[1])

\* train with none, a quarter, a half, three quarters or all of its records
\* in (1, 8]
TrainShapes ==
    {<<0, 0>>} \cup {<<MIN_TRAIN_SAMPLES, (MIN_TRAIN_SAMPLES \div 4) * q>> : q \in 1..4}

\* val of MIN_VAL_TEST_SAMPLES records with a quarter or three quarters of
\* them in (1, 8], give or take MaxBinShift, or none or all; val one record
\* short; val empty
ValShapes ==
    LET quarter == MIN_VAL_TEST_SAMPLES \div 4
        near == {n \in 0..MIN_VAL_TEST_SAMPLES :
                    \E q \in {quarter, 3 * quarter}, s \in 0..MaxBinShift :
                        n = q + s \/ n = q - s}
    IN  {<<MIN_VAL_TEST_SAMPLES, n>> :
            n \in near \cup {0, MIN_VAL_TEST_SAMPLES}}
        \cup {<<MIN_VAL_TEST_SAMPLES - 1, 3 * quarter - 1>>, <<0, 0>>}

TestShapes ==
    {<<MIN_VAL_TEST_SAMPLES, n>> : n \in {5, 15, 16, 18}} \cup {<<0, 0>>}

InitBalance ==
    /\ \E train \in TrainShapes, val \in ValShapes, test \in TestShapes :
            included_df = BalancedFrame(train, val, test)
    /\ \E allow \in BOOLEAN :
            args = Arguments(800, 100, 100, 42, BalanceBins, TRUE, allow)
    /\ pc = "phase6"
    /\ clock = 1
    /\ fs = <<>>
    /\ inventory_csv = Inventory("ok", <<>>)
    /\ df = <<>>
    /\ excluded_df = <<>>
    /\ temporal_report = SkippedByUser
    /\ validation_result = NoValidation
    /\ out_files = [NoFiles EXCEPT !.out_dir = clock]
    /\ exit_code = NoneVal
    /\ previous = NoPrevious

NextBalance == Phase6

SpecBalance == InitBalance /\ [][NextBalance]_vars

-----------------------------------------------------------------------------

(* Properties of the cleaning engine (SpecClean) *)

Cleaned == pc \in {"flag", "phase3", "phase4", "phase5", "phase6", "phase7"}
              \/ (pc = "done" /\ exit_code = 2 /\ included_df = <<>> /\ df # <<>>)

RowIds(rows) == {rows[k].manifest_row_index : k \in DOMAIN rows}

EntriesOf(rows, id) == {k \in DOMAIN rows : rows[k].manifest_row_index = id}

\* C1: apply_cleaning_rules partitions its input: every input record is in
\* exactly one of included and excluded, the two are disjoint, their union
\* is the input, and an excluded record is listed exactly once.
C1_PartitionCompleteness ==
    Cleaned =>
        /\ RowIds(included_df) \cap RowIds(excluded_df) = {}
        /\ RowIds(included_df) \cup RowIds(excluded_df) = RowIds(df)
        /\ \A id \in RowIds(df) :
              Cardinality(EntriesOf(included_df, id))
                  + Cardinality(EntriesOf(excluded_df, id)) = 1
        /\ \A k \in DOMAIN included_df : included_df[k] \in Range(df)

\* a frame where one record matches several rules, one is excluded as a
\* duplicate and one is included
C1_Witness ==
    /\ pc = "flag"
    /\ Len(included_df) >= 1
    /\ \E r \in Range(df) : r.audio_read_ok = FALSE /\ r.transcript_is_blank
    /\ \E k \in DOMAIN excluded_df :
          excluded_df[k].excluded_reason = REASON_DUPLICATE_PAIR

\* the rules as section 4.2 states them, on a row of the hashed frame
DurationInvalid(row) == row.duration_sec = NoneVal \/ row.duration_sec <= 0

SurvivesRules1To3(row) ==
    row.audio_read_ok /\ ~DurationInvalid(row) /\ ~row.transcript_is_blank

\* an earlier survivor of rules 1-3 has the same pair_sha256
LaterDuplicate(row) ==
    \E other \in Range(df) :
        /\ SurvivesRules1To3(other)
        /\ other.manifest_row_index < row.manifest_row_index
        /\ other.pair_sha256 = row.pair_sha256

FirstMatchingRule(row) ==
    IF ~row.audio_read_ok THEN REASON_AUDIO_UNREADABLE
    ELSE IF DurationInvalid(row) THEN REASON_DURATION_INVALID
    ELSE IF row.transcript_is_blank THEN REASON_TRANSCRIPT_BLANK
    ELSE IF LaterDuplicate(row) THEN REASON_DUPLICATE_PAIR
    ELSE "none"

InputRow(id) == CHOOSE r \in Range(df) : r.manifest_row_index = id

C3_KeepFirstSurvivor ==
    Cleaned =>
        \A row \in Range(df) :
            SurvivesRules1To3(row) =>
                IF LaterDuplicate(row)
                THEN \E k \in DOMAIN excluded_df :
                        /\ excluded_df[k].manifest_row_index = row.manifest_row_index
                        /\ excluded_df[k].excluded_reason = REASON_DUPLICATE_PAIR
                ELSE row \in Range(included_df)

\* three records with one pair_sha256: the first is excluded by rule 2, the
\* second is included, the third is excluded as its duplicate
C3_Witness ==
    /\ pc = "flag"
    /\ \E a, b, c \in Range(df) :
          /\ a.manifest_row_index < b.manifest_row_index
          /\ b.manifest_row_index < c.manifest_row_index
          /\ a.pair_sha256 = b.pair_sha256 /\ b.pair_sha256 = c.pair_sha256
          /\ b.pair_sha256 # NoneVal
          /\ ~SurvivesRules1To3(a)
          /\ b \in Range(included_df)
          /\ \E k \in DOMAIN excluded_df :
                /\ excluded_df[k].manifest_row_index = c.manifest_row_index
                /\ excluded_df[k].excluded_reason = REASON_DUPLICATE_PAIR

\* C4: a record whose audio could not be read during hashing (audio_sha256
\* and pair_sha256 missing) is excluded with reason audio_unreadable, so no
\* included record has a missing audio_sha256 or pair_sha256, whatever its
\* inventory audio_read_ok flag says.
C4_UnreadableWhenHashingIsExcluded ==
    Cleaned =>
        /\ \A row \in Range(df) :
              row.audio_sha256 = NoneVal =>
                  \E k \in DOMAIN excluded_df :
                      /\ excluded_df[k].manifest_row_index = row.manifest_row_index
                      /\ excluded_df[k].excluded_reason = REASON_AUDIO_UNREADABLE
        /\ \A k \in DOMAIN included_df :
              /\ included_df[k].audio_sha256 # NoneVal
              /\ included_df[k].pair_sha256 # NoneVal

\* a run that wrote its artifacts after an earlier run that wrote its own
SecondRunDone == pc = "done" /\ exit_code = 0 /\ previous.exists

PairsOf(rows) == {rows[k].pair_sha256 : k \in DOMAIN rows}

\* C5: with the ratios and bin edges unchanged and an input that holds all
\* of the earlier run's included records and new rows, every pair_sha256 of
\* the earlier frozen test set is in the later frozen test set.
C5_FrozenTestMonotonic ==
    (/\ SecondRunDone
     /\ previous.args = args
     /\ RowIds(previous.included_df) \subseteq RowIds(inventory_csv.rows))
        => PairsOf(previous.out_files.frozen_test) \subseteq PairsOf(out_files.frozen_test)

SameInputAndConfiguration ==
    /\ previous.args = args
    /\ previous.inventory_csv = inventory_csv
    /\ previous.fs = fs

SplitDone == pc = "phase5"

BinsOf(frame) == {frame[k].duration_bin : k \in DOMAIN frame}

MembersOf(frame, bin) == {k \in DOMAIN frame : frame[k].duration_bin = bin}

MembersIn(frame, bin, split) ==
    {k \in MembersOf(frame, bin) : frame[k].split = split}

\* C7: under every ratio triple that stratified_split accepts, a bin of n
\* records has floor(n * r_train) train records, and its train, val and
\* test counts sum to n.
C7_TrainCountIsFloor ==
    SplitDone =>
        \A bin \in BinsOf(included_df) :
            LET n == Cardinality(MembersOf(included_df, bin))
            IN  /\ Cardinality(MembersIn(included_df, bin, "train"))
                      = FloorOfProduct(n, args.train_ratio)
                /\ Cardinality(MembersIn(included_df, bin, "train"))
                      + Cardinality(MembersIn(included_df, bin, "val"))
                      + Cardinality(MembersIn(included_df, bin, "test")) = n

PairBelow(frame, ks, js) ==
    \A k \in ks, j \in js :
        (frame[k].pair_sha256 # NoneVal /\ frame[j].pair_sha256 # NoneVal)
            => frame[k].pair_sha256 < frame[j].pair_sha256

\* C8: in a bin of n records the val count is floor(n * r_val), every train
\* record's pair_sha256 is below every val record's, which is below every
\* test record's, and what the two floors leave over is test.
C8_ValCountAndOrder ==
    SplitDone =>
        \A bin \in BinsOf(included_df) :
            LET n == Cardinality(MembersOf(included_df, bin))
                train == MembersIn(included_df, bin, "train")
                val == MembersIn(included_df, bin, "val")
                test == MembersIn(included_df, bin, "test")
            IN  /\ Cardinality(val) = FloorOfProduct(n, args.val_ratio)
                /\ Cardinality(test) = n - FloorOfProduct(n, args.train_ratio)
                                         - FloorOfProduct(n, args.val_ratio)
                /\ PairBelow(included_df, train, val)
                /\ PairBelow(included_df, val, test)
                /\ PairBelow(included_df, train, test)

PairsInBin(frame, bin) ==
    {frame[k].pair_sha256 : k \in MembersOf(frame, bin)}

SameRatios(a, b) ==
    /\ a.train_ratio = b.train_ratio
    /\ a.val_ratio = b.val_ratio
    /\ a.test_ratio = b.test_ratio

\* C9: under the same ratios, a record whose duration bin holds the same
\* set of pair_sha256 values in two runs has the same split in both,
\* whatever the seed, the order of the input rows and the records of the
\* other bins.
C9_SplitDependsOnOwnBinOnly ==
    (SplitDone /\ previous.exists /\ SameRatios(previous.args, args)) =>
        \A k \in DOMAIN included_df, j \in DOMAIN previous.included_df :
            (/\ included_df[k].pair_sha256 = previous.included_df[j].pair_sha256
             /\ included_df[k].duration_bin = previous.included_df[j].duration_bin
             /\ PairsInBin(included_df, included_df[k].duration_bin)
                   = PairsInBin(previous.included_df, included_df[k].duration_bin))
                => included_df[k].split = previous.included_df[j].split

\* a bin of two records, one train and one test, split again after the
\* seed, the row order or another bin changed
C9_Witness ==
    /\ SplitDone /\ previous.exists
    /\ \/ previous.args.seed # args.seed
       \/ previous.inventory_csv # inventory_csv
    /\ \E k, l \in DOMAIN included_df, j \in DOMAIN previous.included_df :
          /\ included_df[k].duration_bin = included_df[l].duration_bin
          /\ included_df[k].split = "train" /\ included_df[l].split = "test"
          /\ included_df[k].pair_sha256 = previous.included_df[j].pair_sha256
          /\ PairsInBin(included_df, included_df[k].duration_bin)
                = PairsInBin(previous.included_df, included_df[k].duration_bin)

\* C10: after cleaning, binning and splitting, every included record has
\* one split label out of train, val and test, so the three counts sum to
\* the number of included records.
C10_EveryIncludedRecordHasSplit ==
    pc \in {"phase5", "phase6", "phase7"} =>
        /\ \A k \in DOMAIN included_df : included_df[k].split \in {"train", "val", "test"}
        /\ SplitCount(included_df, "train") + SplitCount(included_df, "val")
              + SplitCount(included_df, "test") = Len(included_df)

\* two included records of one bin, one train and one test
C10_Witness ==
    /\ pc = "phase5"
    /\ \E k, l \in DOMAIN included_df :
          included_df[k].split = "train" /\ included_df[l].split = "test"

\* some included record has the audio of the record and another transcript
SharesAudioOnly(frame, row) ==
    \E j \in DOMAIN frame :
        /\ frame[j].audio_sha256 = row.audio_sha256
        /\ frame[j].transcript_sha256 # row.transcript_sha256

\* C11: the flagger marks an included record duplicate_audio_flag = true if
\* and only if an included record has the same audio_sha256 and another
\* transcript_sha256 (excluded records form no part of a group), and it
\* leaves the included set as it was: same records, same order, same fields.
C11_FlagIffSharedAudio ==
    [][(pc = "flag" /\ pc' = "phase3") =>
          /\ Len(included_df') = Len(included_df)
          /\ excluded_df' = excluded_df
          /\ \A k \in DOMAIN included_df' :
                /\ included_df'[k] =
                      [duplicate_audio_flag |-> included_df'[k].duplicate_audio_flag]
                          @@ included_df[k]
                /\ included_df'[k].duplicate_audio_flag
                      <=> SharesAudioOnly(included_df, included_df[k])]_vars

\* two included records with one audio and two transcripts, both flagged
C11_Witness ==
    /\ pc = "phase3"
    /\ \E k, j \in DOMAIN included_df :
          /\ k # j
          /\ included_df[k].audio_sha256 = included_df[j].audio_sha256
          /\ included_df[k].transcript_sha256 # included_df[j].transcript_sha256
          /\ included_df[k].duplicate_audio_flag
          /\ included_df[j].duplicate_audio_flag

\* the positions of the bins (lower, upper] that hold a duration
BinsHolding(d, edges) ==
    {i \in 1..(Len(edges) - 1) : edges[i] < d /\ d <= edges[i + 1]}

\* C12: under boundaries [0, e1, ..., en, +inf] with increasing edges every
\* included record is given one bin, the only one with lower < duration <=
\* upper; a duration equal to an edge is in the bin that ends at that edge.
C12_OneBinPerRecord ==
    (pc = "phase4" /\ BinsIncrease(BinEdges(args.duration_bins))) =>
        LET edges == BinEdges(args.duration_bins)
        IN  \A k \in DOMAIN included_df :
                LET d == included_df[k].duration_sec
                IN  /\ d > 0
                    /\ Cardinality(BinsHolding(d, edges)) = 1
                    /\ \A i \in BinsHolding(d, edges) :
                          included_df[k].duration_bin = <<edges[i], edges[i + 1]>>
                    /\ \A i \in 1..(Len(edges) - 1) :
                          d = edges[i + 1] =>
                              included_df[k].duration_bin = <<edges[i], d>>

\* one record lasts exactly as long as the first configured edge and is in
\* the bin that ends there; another record is in the bin that ends at +inf
C12_Witness ==
    /\ pc = "phase4"
    /\ \E k, j \in DOMAIN included_df :
          /\ included_df[k].duration_sec = args.duration_bins[1]
          /\ included_df[k].duration_bin = <<0, args.duration_bins[1]>>
          /\ included_df[j].duration_bin[2] = Inf

\* the hashing stage has returned and the frame has its three hash columns
Hashed == pc = "phase2"

\* C13: in what compute_all_hashes returns for a record, transcript_sha256
\* is never missing, and pair_sha256 is missing if and only if audio_sha256
\* is missing.
C13_HashNullability ==
    Hashed =>
        \A k \in DOMAIN df :
            /\ df[k].transcript_sha256 # NoneVal
            /\ df[k].pair_sha256 = NoneVal <=> df[k].audio_sha256 = NoneVal

\* one record whose audio could not be read and one whose audio was hashed
C13_Witness ==
    /\ Hashed
    /\ \E k, j \in DOMAIN df :
          /\ df[k].audio_sha256 = NoneVal /\ df[k].pair_sha256 = NoneVal
          /\ df[k].transcript_sha256 # NoneVal
          /\ df[j].audio_sha256 # NoneVal /\ df[j].pair_sha256 # NoneVal

\* the bytes of the audio file of a row
AudioBytes(row) == fs[row.audio_path_resolved]

SameContent(a, b) ==
    AudioBytes(a) = AudioBytes(b) /\ a.transcript_raw = b.transcript_raw

\* C14: among records that have a pair_sha256 (their audio was read), two
\* records have the same pair_sha256 if and only if they have the same
\* audio bytes and the same transcript text, whatever rows they are in.
C14_HashStability ==
    Hashed =>
        \A k, j \in DOMAIN df :
            (df[k].pair_sha256 # NoneVal /\ df[j].pair_sha256 # NoneVal) =>
                (df[k].pair_sha256 = df[j].pair_sha256 <=> SameContent(df[k], df[j]))

\* two rows with the same audio and transcript, the later one first in the
\* inventory, have one pair_sha256
C14_Witness ==
    /\ Hashed
    /\ \E k, j \in DOMAIN df :
          /\ k < j /\ df[k].manifest_row_index > df[j].manifest_row_index
          /\ SameContent(df[k], df[j])
          /\ df[k].pair_sha256 # NoneVal
          /\ df[k].pair_sha256 = df[j].pair_sha256

\* the inventory was read and the hashing stage is over, one way or another
PastHashing == pc \notin {"start", "load", "phase1"} /\ df # <<>>

\* C15: the hashing stage completes for every inventory record, those with
\* an empty or absent transcript too: each record has a transcript_sha256,
\* which is not missing, and goes on to the cleaning rules.
C15_TranscriptHashAlwaysSucceeds ==
    PastHashing =>
        \A k \in DOMAIN df :
            /\ "transcript_sha256" \in DOMAIN df[k]
            /\ df[k].transcript_sha256 # NoneVal
            /\ \/ df[k].manifest_row_index \in RowIds(included_df)
               \/ df[k].manifest_row_index \in RowIds(excluded_df)
               \/ pc = "phase2"

-----------------------------------------------------------------------------
(* Properties of the temporal check (SpecTemporal) *)

\* temporal_leakage_report has returned its report on the split frame
TemporalChecked == pc = "phase6" /\ ~args.skip_temporal_check

Stamped(frame) == {k \in DOMAIN frame : frame[k].timestamp_ms # NoneVal}

\* at least half of the records carry a timestamp
HalfStamped(frame) == 2 * Cardinality(Stamped(frame)) >= Len(frame)

\* C16: the temporal check runs exactly when at least 50% of the included
\* records have a timestamp, 50% included: below that the status is
\* skipped_insufficient_timestamps and both counts are null, otherwise the
\* status is completed and both counts are there.
C16_CoverageThreshold ==
    TemporalChecked =>
        IF HalfStamped(included_df)
        THEN /\ temporal_report.temporal_check_status = "completed"
             /\ temporal_report.temporal_clusters_crossing_splits # NoneVal
             /\ temporal_report.total_clusters # NoneVal
        ELSE /\ temporal_report.temporal_check_status = "skipped_insufficient_timestamps"
             /\ temporal_report.temporal_clusters_crossing_splits = NoneVal
             /\ temporal_report.total_clusters = NoneVal

\* one of two included records has a timestamp and the check has run
C16_Witness ==
    /\ TemporalChecked
    /\ Len(included_df) = 2 /\ Cardinality(Stamped(included_df)) = 1
    /\ temporal_report.temporal_check_status = "completed"

\* the clusters of the included records that hold a record of each split
ClustersHolding(frame, splits) ==
    LET cluster_of == detect_temporal_clusters(frame, DEFAULT_SESSION_GAP_MS)
    IN  {c \in ClusterIds(cluster_of) :
            \A s \in splits :
                \E k \in DOMAIN frame :
                    cluster_of[frame[k].index] = c /\ frame[k].split = s}

\* C17: the crossing count is the number of session clusters that have a
\* train record and a test record; a cluster of train and val records, of
\* val and test records or of one split is not counted, and the count is at
\* most the number of clusters.
C17_CrossingCount ==
    (TemporalChecked /\ temporal_report.temporal_check_status = "completed") =>
        /\ temporal_report.temporal_clusters_crossing_splits
              = Cardinality(ClustersHolding(included_df, {"train", "test"}))
        /\ temporal_report.total_clusters
              = Cardinality(ClustersHolding(included_df, {}))
        /\ temporal_report.temporal_clusters_crossing_splits
              <= temporal_report.total_clusters

\* a session with a train and a test record is counted, beside a session
\* with a val record only
C17_Witness ==
    /\ TemporalChecked
    /\ temporal_report.temporal_clusters_crossing_splits = 1
    /\ temporal_report.total_clusters = 2
    /\ ClustersHolding(included_df, {"val"}) # {}
    /\ ClustersHolding(included_df, {"val"}) \cap ClustersHolding(included_df, {"train"}) = {}

\* a second run is over
SecondRunOver == pc = "done" /\ previous.exists

\* the inventories are the same but for the timestamps
SameButTimestamps(a, b) ==
    LET None(t) == NoneVal
    IN  a.state = b.state /\ Retimed(a.rows, None) = Retimed(b.rows, None)

\* the configurations are the same but for --skip_temporal_check
SameButSkip(a, b) ==
    [a EXCEPT !.skip_temporal_check = TRUE] = [b EXCEPT !.skip_temporal_check = TRUE]

SplitOf(frame) ==
    [k \in DOMAIN frame |-> <<frame[k].manifest_row_index, frame[k].split>>]

\* C18: the temporal result is informational: two runs that differ only in
\* the timestamps of the inventory or in --skip_temporal_check, and so in
\* what the temporal check reports, end with the same exit code, the same
\* split of the same records and the same validation result.
C18_TemporalResultBlocksNothing ==
    (/\ SecondRunOver
     /\ previous.fs = fs
     /\ SameButTimestamps(previous.inventory_csv, inventory_csv)
     /\ SameButSkip(previous.args, args)) =>
        /\ exit_code = previous.exit_code
        /\ SplitOf(included_df) = SplitOf(previous.included_df)
        /\ validation_result = previous.validation_result

\* a run that found a session crossing train and test, then one that found
\* none or did not check, both ending with exit code 0
C18_Witness ==
    /\ SecondRunOver
    /\ exit_code = 0
    /\ previous.temporal_report.temporal_clusters_crossing_splits > 0
    /\ temporal_report # previous.temporal_report
    /\ temporal_report.temporal_clusters_crossing_splits \in {NoneVal, 0}

-----------------------------------------------------------------------------
(* Properties of the size validation (SpecValidate) *)

\* phase 6 has validated the split frame
SizesValidated ==
    \/ pc = "phase7"
    \/ pc = "done" /\ exit_code = 2 /\ included_df # <<>>

CountIn(frame, split) == Cardinality({k \in DOMAIN frame : frame[k].split = split})

\* the total duration of a split: each duration times the number of the
\* records of the split that have it
RECURSIVE DurationOver(_, _, _)
DurationOver(frame, split, durations) ==
    IF durations = {} THEN 0
    ELSE LET d == CHOOSE x \in durations : TRUE
         IN  d * Cardinality({k \in DOMAIN frame :
                                frame[k].split = split /\ frame[k].duration_sec = d})
             + DurationOver(frame, split, durations \ {d})

DurationIn(frame, split) ==
    DurationOver(frame, split, {frame[k].duration_sec : k \in DOMAIN frame})

\* the thresholds, in the order of the checks, and whether each is violated
Thresholds(frame) ==
    <<[check |-> "samples", split |-> "train", violated |-> CountIn(frame, "train") < 100],
      [check |-> "samples", split |-> "val", violated |-> CountIn(frame, "val") < 20],
      [check |-> "samples", split |-> "test", violated |-> CountIn(frame, "test") < 20],
      [check |-> "duration", split |-> "train", violated |-> DurationIn(frame, "train") < 600],
      [check |-> "duration", split |-> "val", violated |-> DurationIn(frame, "val") < 120],
      [check |-> "duration", split |-> "test", violated |-> DurationIn(frame, "test") < 120]>>

\* the violated thresholds, as <<check, split>>, in the order of the checks
RECURSIVE ViolatedUpTo(_, _)
ViolatedUpTo(thresholds, k) ==
    IF k = 0 THEN <<>>
    ELSE IF thresholds[k].violated
         THEN Append(ViolatedUpTo(thresholds, k - 1),
                     <<thresholds[k].check, thresholds[k].split>>)
         ELSE ViolatedUpTo(thresholds, k - 1)

Violations(frame) == ViolatedUpTo(Thresholds(frame), 6)

\* what the size messages of a list are about; the messages of the
\* distribution check are left out
RECURSIVE SizeMessagesUpTo(_, _)
SizeMessagesUpTo(messages, k) ==
    IF k = 0 THEN <<>>
    ELSE IF "check" \in DOMAIN messages[k]
         THEN Append(SizeMessagesUpTo(messages, k - 1),
                     <<messages[k].check, messages[k].split>>)
         ELSE SizeMessagesUpTo(messages, k - 1)

SizeMessages(messages) == SizeMessagesUpTo(messages, Len(messages))

\* C19: sample_validation_passed is true if and only if train has at least
\* 100 records and val and test at least 20 each; duration_validation_passed
\* is true if and only if train lasts at least 600 s and val and test at
\* least 120 s each; a value at its threshold passes; there is one message
\* for each violated threshold, those on counts before those on durations.
C19_ThresholdsAndMessages ==
    SizesValidated =>
        /\ validation_result.sample_validation_passed
              <=> /\ CountIn(included_df, "train") >= 100
                  /\ CountIn(included_df, "val") >= 20
                  /\ CountIn(included_df, "test") >= 20
        /\ validation_result.duration_validation_passed
              <=> /\ DurationIn(included_df, "train") >= 600
                  /\ DurationIn(included_df, "val") >= 120
                  /\ DurationIn(included_df, "test") >= 120
        /\ SizeMessages(validation_result.errors \o validation_result.warnings)
              = Violations(included_df)

\* train has exactly 100 records that last exactly 600 s and passes both
\* checks, val has 19 records and test lasts less than 120 s
C19_Witness ==
    /\ SizesValidated
    /\ CountIn(included_df, "train") = 100 /\ DurationIn(included_df, "train") = 600
    /\ CountIn(included_df, "val") = 19 /\ DurationIn(included_df, "val") >= 120
    /\ CountIn(included_df, "test") = 20 /\ DurationIn(included_df, "test") < 120
    /\ ~validation_result.sample_validation_passed
    /\ ~validation_result.duration_validation_passed
    /\ Len(validation_result.errors \o validation_result.warnings) = 2

\* C20: without the override every size or duration violation is an error
\* and passed is false exactly when there is a violation; with the override
\* the same messages are warnings, there is no error and passed is true,
\* and the two flags report the violations as they do without it.
C20_OverrideDowngradesErrors ==
    SizesValidated =>
        /\ IF args.allow_small_splits
           THEN /\ validation_result.errors = <<>>
                /\ SizeMessages(validation_result.warnings) = Violations(included_df)
                /\ validation_result.passed
           ELSE /\ SizeMessages(validation_result.errors) = Violations(included_df)
                /\ Len(validation_result.errors) = Len(Violations(included_df))
                /\ SizeMessages(validation_result.warnings) = <<>>
                /\ validation_result.passed <=> Violations(included_df) = <<>>
        /\ validation_result.sample_validation_passed
              <=> \A k \in 1..3 : ~Thresholds(included_df)[k].violated
        /\ validation_result.duration_validation_passed
              <=> \A k \in 4..6 : ~Thresholds(included_df)[k].violated

\* under the override a count and a duration are too small: two warnings,
\* no error, passed, and both flags false
C20_Witness ==
    /\ SizesValidated /\ args.allow_small_splits
    /\ Len(Violations(included_df)) >= 2
    /\ validation_result.errors = <<>>
    /\ Len(SizeMessages(validation_result.warnings)) >= 2
    /\ validation_result.passed
    /\ ~validation_result.sample_validation_passed
    /\ ~validation_result.duration_validation_passed

-----------------------------------------------------------------------------
(* Properties of the distribution check (SpecBalance) *)

\* the messages of the distribution check in a list
BalanceMessages(messages) ==
    {messages[k] : k \in {j \in DOMAIN messages : "warning" \in DOMAIN messages[j]}}

\* C22: the findings of the distribution check are warnings only: none is
\* among the errors, passed and the two flags are what the size and
\* duration thresholds alone make them, and the run halts with exit code 2
\* exactly when a threshold is violated without the override.
C22_BalanceFindingsOnlyWarn ==
    SizesValidated =>
        /\ BalanceMessages(validation_result.errors) = {}
        /\ validation_result.passed
              <=> (args.allow_small_splits \/ Violations(included_df) = <<>>)
        /\ validation_result.sample_validation_passed
              <=> \A k \in 1..3 : ~Thresholds(included_df)[k].violated
        /\ validation_result.duration_validation_passed
              <=> \A k \in 4..6 : ~Thresholds(included_df)[k].violated
        /\ IF ~args.allow_small_splits /\ Violations(included_df) # <<>>
           THEN pc = "done" /\ exit_code = 2
           ELSE pc = "phase7" /\ exit_code = NoneVal

\* no threshold is violated and there is no override, val differs from
\* train in a bin: that is warned of, the run passes and goes on to write
\* its artifacts
C22_Witness ==
    /\ SizesValidated /\ ~args.allow_small_splits
    /\ Violations(included_df) = <<>>
    /\ \E w \in BalanceMessages(validation_result.warnings) :
          w.warning = "differs" /\ w.split = "val"
    /\ validation_result.errors = <<>>
    /\ validation_result.passed
    /\ pc = "phase7"

-----------------------------------------------------------------------------

(* Properties of the outcome of a run (Spec) *)

\* the run is over and went through phase 6: its frame has the split column
ValidatedAndOver ==
    /\ pc = "done"
    /\ included_df # <<>>
    /\ "split" \in DOMAIN included_df[1]

Artifacts ==
    {"dataset_v1_manifest.csv", "dataset_v1_excluded.csv", "test_set_v1_frozen.csv",
     "dataset_v1_summary.json", "dataset_v1_report.md"}

\* C21: when a size or duration threshold is violated, a run without
\* --allow_small_splits ends with exit code 2; a run with it ends with exit
\* code 0, has written the five artifacts, and its summary lists one
\* warning for each violation in split_quality_warnings.
C21_ViolationHaltsUnlessOverridden ==
    (ValidatedAndOver /\ Violations(included_df) # <<>>) =>
        IF args.allow_small_splits
        THEN /\ exit_code = 0
             /\ out_files.written = Artifacts
             /\ Len(out_files.summary) = 1
             /\ SizeMessages(out_files.summary[1].split_quality_warnings)
                   = Violations(included_df)
        ELSE exit_code = 2

\* an overridden run with too few train records that wrote its artifacts
C21_Witness ==
    /\ ValidatedAndOver /\ args.allow_small_splits
    /\ <<"samples", "train">> \in Range(Violations(included_df))
    /\ exit_code = 0
    /\ out_files.written = Artifacts
    /\ Len(out_files.summary[1].split_quality_warnings) >= 1

\* the duration bins that have a record of the split
BinsIn(frame, split) ==
    {frame[k].duration_bin : k \in {j \in DOMAIN frame : frame[j].split = split}}

\* C23: when train is not empty, every duration bin that has a record in
\* val (or in test) and none in train gets a warning of the distribution
\* check that names the bin and the split.
C23_BinAbsentFromTrainIsWarned ==
    (SizesValidated /\ CountIn(included_df, "train") > 0) =>
        \A split \in {"val", "test"} :
            \A bin \in BinsIn(included_df, split) \ BinsIn(included_df, "train") :
                \E w \in BalanceMessages(validation_result.warnings) :
                    w.split = split /\ w.bin = bin

\* the fatal conditions of section 7, as the inputs of the run show them
ArgumentsFatal ==
    \/ RatiosRejected(args.train_ratio, args.val_ratio, args.test_ratio)
    \/ ~BinsIncrease(args.duration_bins)

InventoryFatal == inventory_csv.state \in {"missing", "unreadable", "missing_columns"}

\* the inventory was read and hashed, and the rules exclude every record
NothingLeftAfterCleaning ==
    /\ ~ArgumentsFatal /\ ~InventoryFatal
    /\ df # <<>>
    /\ "pair_sha256" \in DOMAIN df[1]
    /\ apply_cleaning_rules(df).included_df = <<>>

\* C24: a run with a fatal condition (inventory missing, unreadable or
\* without a required column, ratios that do not sum to 1.0, bin edges that
\* do not increase, no record left after cleaning) ends with exit code 1.
C24_FatalConditionsExitWithOne ==
    (pc = "done" /\ (ArgumentsFatal \/ InventoryFatal \/ NothingLeftAfterCleaning))
        => exit_code = 1

\* phases 1 to 6 are over and the validation lets the run go on
GoingToSucceed ==
    /\ pc \in {"phase7", "done"}
    /\ included_df # <<>>
    /\ "split" \in DOMAIN included_df[1]
    /\ args.allow_small_splits \/ Violations(included_df) = <<>>

\* C25: the five artifacts are written all together or not at all: a run
\* that ends with exit code 1 or 2 has written none of them, an artifact
\* exists only once the validation has been evaluated and lets the run go
\* on, and a run that gets there ends with all five written, whatever
\* records were unreadable.
C25_ArtifactsAllOrNothing ==
    /\ out_files.written \in {{}, Artifacts}
    /\ (pc = "done" /\ exit_code \in {1, 2}) => out_files.written = {}
    /\ out_files.written # {} => (GoingToSucceed /\ validation_result.passed)
    /\ (pc = "done" /\ GoingToSucceed) => (exit_code = 0 /\ out_files.written = Artifacts)

\* a run with a record whose audio the inventory marks unreadable and one
\* whose audio file cannot be read when it is hashed: both are past, the
\* artifacts are written
C25_Witness ==
    /\ pc = "done" /\ exit_code = 0
    /\ out_files.written = Artifacts
    /\ \E r \in Range(df) : ~r.audio_read_ok
    /\ \E r \in Range(included_df) : r.audio_sha256 = NoneVal
    /\ Len(out_files.manifest) = Len(included_df)

\* C26: when cleaning excludes no record, the excluded list that the run
\* writes has the header row file_name, manifest_row_index, excluded_reason,
\* audio_sha256, transcript_sha256 and no data row.
C26_EmptyExcludedListKeepsHeader ==
    (pc = "done" /\ exit_code = 0 /\ excluded_df = <<>>) =>
        /\ "dataset_v1_excluded.csv" \in out_files.written
        /\ out_files.excluded.header = EXCLUDED_COLUMNS
        /\ out_files.excluded.rows = <<>>

-----------------------------------------------------------------------------
(* Properties of the session clusters (SpecTemporal) *)

\* the check has run on the split frame and has clustered it
Clustered == TemporalChecked /\ HalfStamped(included_df)

StampsOf(frame) == {frame[k].timestamp_ms : k \in Stamped(frame)}

\* the stamps that start a session: the first one, and each that is more
\* than the gap after the stamps before it
SessionStarts(stamps) ==
    {t \in stamps : \A u \in stamps : u < t => t - u > 60000}

ColumnOf(frame, column) == [k \in DOMAIN frame |-> frame[k][column]]

\* C27: among the records with a timestamp, taken by ascending timestamp,
\* a record starts a new cluster exactly when it is the first or comes more
\* than 60,000 ms after the one before it (exactly 60,000 ms stays in the
\* cluster); the ids start at 1, never decrease along the timestamps and
\* grow by 1 at each start; the records come back in their original order.
C27_ClusterStartsAndIds ==
    Clustered =>
        LET result == clustered_frame(included_df, DEFAULT_SESSION_GAP_MS)
            stamps == StampsOf(included_df)
        IN  /\ ColumnOf(result, "index") = ColumnOf(included_df, "index")
            /\ ColumnOf(result, "timestamp_ms") = ColumnOf(included_df, "timestamp_ms")
            /\ \A k \in Stamped(result) :
                  result[k].session_cluster_id
                      = Cardinality({t \in SessionStarts(stamps) :
                                        t <= result[k].timestamp_ms})
            /\ \A j, k \in Stamped(result) :
                  result[j].timestamp_ms <= result[k].timestamp_ms
                      => result[j].session_cluster_id <= result[k].session_cluster_id
            /\ \A k \in Stamped(result) :
                  result[k].timestamp_ms \in SessionStarts(stamps)
                      <=> \A j \in Stamped(result) :
                              result[j].timestamp_ms < result[k].timestamp_ms
                                  => result[j].session_cluster_id
                                         < result[k].session_cluster_id

\* three records whose frame order is not their timestamp order: the first
\* of the frame is the last in time and alone in cluster 2, the other two
\* are exactly 60,000 ms apart and share cluster 1
C27_Witness ==
    /\ Clustered
    /\ ColumnOf(included_df, "timestamp_ms") = <<120001, 0, 60000>>
    /\ ColumnOf(clustered_frame(included_df, DEFAULT_SESSION_GAP_MS), "session_cluster_id")
          = <<2, 1, 1>>

Unstamped(frame) == DOMAIN frame \ Stamped(frame)

\* the sessions of the records with a timestamp that have a train record
\* and a test record
StampedSessionsCrossing(result) ==
    {c \in {result[k].session_cluster_id : k \in Stamped(result)} :
        \E j, k \in Stamped(result) :
            /\ result[j].session_cluster_id = c /\ result[j].split = "train"
            /\ result[k].session_cluster_id = c /\ result[k].split = "test"}

\* C30: when the check runs on a frame where some records have no
\* timestamp, each of those is a cluster of its own (no other record, with
\* or without a timestamp, has its cluster id), the crossing count is that
\* of the sessions of the timestamped records alone, and the total is the
\* number of those sessions plus one for each record without a timestamp.
C30_UnstampedRecordsAreSingletons ==
    Clustered =>
        LET result == clustered_frame(included_df, DEFAULT_SESSION_GAP_MS)
        IN  /\ \A k \in Unstamped(result) :
                  \A j \in DOMAIN result \ {k} :
                      result[j].session_cluster_id # result[k].session_cluster_id
            /\ temporal_report.temporal_clusters_crossing_splits
                  = Cardinality(StampedSessionsCrossing(result))
            /\ temporal_report.total_clusters
                  = Cardinality(SessionStarts(StampsOf(included_df)))
                        + Cardinality(Unstamped(result))

\* two records without a timestamp, one train and one test, beside one
\* session of two timestamped records: three clusters, none crossing
C30_Witness ==
    /\ Clustered
    /\ Cardinality(Unstamped(included_df)) = 2
    /\ \E j, k \in Unstamped(included_df) :
          included_df[j].split = "train" /\ included_df[k].split = "test"
    /\ Cardinality(SessionStarts(StampsOf(included_df))) = 1
    /\ temporal_report.total_clusters = 3
    /\ temporal_report.temporal_clusters_crossing_splits = 0

-----------------------------------------------------------------------------
(* Properties of the order that the splitter sorts by (SpecClean) *)

\* a comes before b in ascending pair_sha256 order, missing values last
SortsBefore(a, b) ==
    /\ a.pair_sha256 # NoneVal
    /\ b.pair_sha256 = NoneVal \/ a.pair_sha256 < b.pair_sha256

\* C29: the included records that apply_cleaning_rules returns have
\* pair_sha256 values that differ from one another, so of any two of them
\* exactly one sorts before the other, and the records sorted by
\* pair_sha256 come in the same order whatever order they were in before.
C29_IncludedPairsAreDistinct ==
    Cleaned =>
        /\ \A j, k \in DOMAIN included_df :
              j # k => included_df[j].pair_sha256 # included_df[k].pair_sha256
        /\ \A j, k \in DOMAIN included_df :
              j # k => (SortsBefore(included_df[j], included_df[k])
                            <=> ~SortsBefore(included_df[k], included_df[j]))
        /\ ColumnOf(SortByPairSha256(included_df), "manifest_row_index")
              = ColumnOf(SortByPairSha256(Reversed(included_df)), "manifest_row_index")

\* two records whose audio cannot be hashed have no pair_sha256: the first
\* is included beside a record that has one, the second is excluded as its
\* duplicate
C29_Witness ==
    /\ Cleaned
    /\ Len(included_df) >= 2
    /\ \E r \in Range(included_df) : r.pair_sha256 = NoneVal
    /\ \E e \in Range(excluded_df) :
          e.excluded_reason = REASON_DUPLICATE_PAIR /\ e.audio_sha256 = NoneVal

-----------------------------------------------------------------------------
(* Properties of the deviation threshold (SpecBalance) *)

BinCountIn(frame, split, bin) ==
    Cardinality({k \in DOMAIN frame :
                    frame[k].split = split /\ frame[k].duration_bin = bin})

\* |p_split - p_train| / p_train > 20 / 100 in exact arithmetic, with
\* p_split = sc / sn and p_train = tc / tn: |sc * tn - tc * sn| * 5 > tc * sn
DeviatesByMoreThanAFifth(frame, split, bin) ==
    LET sc == BinCountIn(frame, split, bin)
        sn == CountIn(frame, split)
        tc == BinCountIn(frame, "train", bin)
        tn == CountIn(frame, "train")
        d == sc * tn - tc * sn
    IN  (IF d < 0 THEN 0 - d ELSE d) * 5 > tc * sn

\* the messages of the distribution check, in the order they were given
BalanceMessagesInOrder(messages) ==
    LET kept == {k \in DOMAIN messages : "warning" \in DOMAIN messages[k]}
        Kept(n) == CHOOSE k \in kept : Cardinality({j \in kept : j < k}) = n - 1
    IN  [n \in 1..Cardinality(kept) |-> messages[Kept(n)]]

\* C28: for val and for test, when the split is not empty, a duration bin
\* with records in train gets a warning for that split exactly when its
\* share of the split deviates from its share of train by more than 20% of
\* the latter (exactly 20% gives no warning, a bin without records in the
\* split deviates by 100% and is warned of); when train is empty, the one
\* message of the check is that train is empty.
C28_WarningIffDeviationOverTwentyPercent ==
    SizesValidated =>
        IF CountIn(included_df, "train") = 0
        THEN BalanceMessagesInOrder(validation_result.warnings)
                = <<[warning |-> "train_empty", split |-> "train", bin |-> NoBin]>>
        ELSE \A split \in {"val", "test"} :
                CountIn(included_df, split) > 0 =>
                    \A bin \in BinsIn(included_df, "train") :
                        DeviatesByMoreThanAFifth(included_df, split, bin)
                            <=> \E w \in BalanceMessages(validation_result.warnings) :
                                    /\ w.warning = "differs"
                                    /\ w.split = split
                                    /\ w.bin = bin

====
